---- MODULE Spec2Model ----
(***************************************************************************)
(* A model of the FEPyio record serialization engine: the generic          *)
(* FebBase.to_dict of fepyio/feb_base.py, the dictionary utilities of      *)
(* fepyio/utils/dict_utils.py, the key converter of                        *)
(* fepyio/utils/xmltodict_key_converter.py and the overriding to_dict      *)
(* methods of fepyio/boundary.py and fepyio/mesh.py.                       *)
(*                                                                         *)
(* Python values are tagged tuples, so that two values of different kinds  *)
(* differ in their first component:                                        *)
(*   <<"none">>                         None                               *)
(*   <<"str", s>>   <<"int", n>>        str and int scalars                *)
(*   <<"float", text>>                  a float, by its text               *)
(*   <<"bool", b>>                      True or False                      *)
(*   <<"enum", class, name, value>>     a member of an Enum class          *)
(*   <<"list", seq>> <<"tuple", seq>>   list and tuple                     *)
(*   <<"ndarray", seq>>                 a 1-D numpy array                  *)
(*   <<"ndarray", seq, n2, ...>>        an array of shape (Len(seq), n2,   *)
(*                                      ...): seq holds its sub-arrays     *)
(*   <<"dict", pairs>>                  a dict: <<key, value>> pairs in    *)
(*                                      insertion order, keys distinct     *)
(*   <<"obj", class, attrs, has, map>>  a dataclass instance: attrs are    *)
(*                                      the field values in the order of   *)
(*                                      fields(); has/map are _key_map     *)
(*   <<"raise", exception, ...>>        the call raised; the attributes of *)
(*                                      the exception follow its name      *)
(***************************************************************************)
EXTENDS Integers, Sequences, FiniteSets, TLC

VARIABLES root, result, op, key, xml, args, threads

vars == <<root, result, op, key, xml, args, threads>>

-----------------------------------------------------------------------------
(* Bounds *)

\* longest list held by a list-valued field
MaxList == 2
\* how many of Solver's optional fields one instance sets
MaxSet == 1
\* longest field name given to prop_to_xml
MaxKeyLen == 4
\* most faces in one Surface
MaxFaces == 3
\* largest face id
MaxFaceId == 2
\* most rows of an array or entries of a list of points given to a constructor
MaxRows == 2
\* most property bags in the mapping given to convert_to_materials
MaxMats == 2
\* largest material id
MaxMatId == 2
\* most keys of a dictionary given to prune_dict_inplace
MaxKeys == 4
\* most elements of a tetrahedral mesh
MaxElems == 3

-----------------------------------------------------------------------------
(* Python values *)

None == <<"none">>

Str(s) == <<"str", s>>

PyInt(n) == <<"int", n>>

Float(text) == <<"float", text>>

Bool(b) == <<"bool", b>>

List(items) == <<"list", items>>

Tuple(items) == <<"tuple", items>>

NdArray(items) == <<"ndarray", items>>

Dict(pairs) == <<"dict", pairs>>

Raise(exc) == <<"raise", exc>>

Kind(v) == v[1]

IsRaise(v) == Kind(v) = "raise"

IsDict(v) == Kind(v) = "dict"

IsList(v) == Kind(v) = "list"

\* isinstance(value, FebBase)
IsFebBase(v) == Kind(v) = "obj"

\* isinstance(value, collections.abc.Sized)
IsSized(v) == Kind(v) \in {"str", "list", "tuple", "ndarray", "dict"}

\* len(value)
PyLen(v) == Len(v[2])

\* array.ndim
ndim(a) == Len(a) - 1

\* array.shape, a tuple of int
shape(a) ==
    Tuple(<<PyInt(Len(a[2]))>> \o [i \in 1..(Len(a) - 2) |-> PyInt(a[i + 2])])

RECURSIVE zeros(_)
\* np.zeros(dims): the array of shape dims that holds 0 everywhere
zeros(dims) ==
    IF Len(dims) = 1 THEN NdArray([i \in 1..dims[1] |-> PyInt(0)])
    ELSE <<"ndarray", [i \in 1..dims[1] |-> zeros(Tail(dims))]>> \o Tail(dims)

\* raise ArrayShapeError(array_name=..., array_shape=..., expected_shape=...,
\* extra=...): the exception keeps the four as attributes, extra or ""
ArrayShapeError(array_name, array_shape, expected_shape, extra) ==
    <<"raise", "ArrayShapeError", array_name, array_shape, expected_shape,
      IF extra = None THEN Str("") ELSE extra>>

\* str(member) of an Enum member
EnumStr(member) == member[2] \o "." \o member[3]

\* str(value) for the scalars that are joined into text
PyStr(v) == IF Kind(v) = "int" THEN ToString(v[2]) ELSE v[2]

\* sep.join(map(str, items))
RECURSIVE Join(_, _)
Join(sep, items) ==
    IF items = <<>> THEN ""
    ELSE IF Len(items) = 1 THEN PyStr(items[1])
    ELSE PyStr(items[1]) \o sep \o Join(sep, Tail(items))

-----------------------------------------------------------------------------
(* dict: an insertion-ordered mapping *)

Keys(pairs) == [i \in 1..Len(pairs) |-> pairs[i][1]]

HasKey(pairs, k) == \E i \in 1..Len(pairs) : pairs[i][1] = k

IndexOf(pairs, k) == CHOOSE i \in 1..Len(pairs) : pairs[i][1] = k

Get(pairs, k) == pairs[IndexOf(pairs, k)][2]

\* d[k] = v: a new key goes last, an existing key keeps its place
DictSet(pairs, k, v) ==
    IF HasKey(pairs, k)
    THEN [pairs EXCEPT ![IndexOf(pairs, k)] = <<k, v>>]
    ELSE Append(pairs, <<k, v>>)

\* prune_dict that removes only None, whatever the flag
prune_dict_none_only(pairs, prune_empty_iterables) ==
    SelectSeq(pairs, LAMBDA p : p[2] # None)

prune_dict(pairs, prune_empty_iterables) ==
    IF prune_empty_iterables
    THEN SelectSeq(pairs, LAMBDA p :
            p[2] # None /\ (~IsSized(p[2]) \/ PyLen(p[2]) > 0))
    ELSE SelectSeq(pairs, LAMBDA p : p[2] # None)

\* unlist_dict that takes the first item of every non-empty list
unlist_dict_first(pairs) ==
    [i \in 1..Len(pairs) |->
        LET value == pairs[i][2] IN
        <<pairs[i][1],
          IF IsList(value) /\ PyLen(value) >= 1 THEN value[2][1] ELSE value>>]

unlist_dict(pairs) ==
    [i \in 1..Len(pairs) |->
        LET value == pairs[i][2] IN
        <<pairs[i][1],
          IF IsList(value) /\ PyLen(value) = 1 THEN value[2][1] ELSE value>>]

\* d.pop(k) and del d[k]: d without the key k
DictPop(pairs, k) == SelectSeq(pairs, LAMBDA p : p[1] # k)

RECURSIVE prune_dict_inplace_loop(_, _, _)
\* `for key in d` of prune_dict_inplace, with the iterator at position pos
\* and di_used the size of d when the iteration began: <<d, None>> at the
\* end of the loop, <<d, exception>> when the iterator finds the size of d
\* changed
prune_dict_inplace_loop(d, pos, di_used) ==
    IF Len(d) # di_used THEN <<d, Raise("RuntimeError")>>
    ELSE IF pos > Len(d) THEN <<d, None>>
    ELSE IF d[pos][2] = None
    THEN prune_dict_inplace_loop(DictPop(d, d[pos][1]), pos + 1, di_used)
    ELSE prune_dict_inplace_loop(d, pos + 1, di_used)

\* prune_dict_inplace(d): d after the call, and None or the exception raised
prune_dict_inplace(d) == prune_dict_inplace_loop(d, 1, Len(d))

-----------------------------------------------------------------------------
(* Key conversion *)

\* key.startswith(prefix)
StartsWith(s, prefix) ==
    Len(s) >= Len(prefix) /\ SubSeq(s, 1, Len(prefix)) = prefix

\* key.endswith(suffix)
EndsWith(s, suffix) ==
    Len(s) >= Len(suffix) /\ SubSeq(s, Len(s) - Len(suffix) + 1, Len(s)) = suffix

\* key.replace(old, new, 1): the first occurrence of old becomes new
Replace1(s, old, new) ==
    LET At(i) == SubSeq(s, i, i + Len(old) - 1) = old
        Hits == {i \in 1..(Len(s) - Len(old) + 1) : At(i)}
    IN  IF Hits = {} THEN s
        ELSE LET i == CHOOSE h \in Hits : \A g \in Hits : h <= g
             IN  SubSeq(s, 1, i - 1) \o new \o SubSeq(s, i + Len(old), Len(s))

\* prop_to_xml with the two prefix tests in the opposite order
prop_to_xml_single_first(k) ==
    IF StartsWith(k, "_") THEN Replace1(k, "_", "@")
    ELSE IF StartsWith(k, "__") THEN Replace1(k, "__", "#")
    ELSE k

prop_to_xml(k) ==
    IF StartsWith(k, "__") THEN Replace1(k, "__", "#")
    ELSE IF StartsWith(k, "_") THEN Replace1(k, "_", "@")
    ELSE k

-----------------------------------------------------------------------------
(* The record types (dataclasses) and their fields, in declared order *)

Fields(cls) ==
    CASE cls = "Solver" ->
            <<"etol", "rtol", "lstol", "dtol", "max_refs", "max_ups",
              "diverge_reform", "reform_each_time_step", "min_residual",
              "qnmethod", "rhoi", "symmetric_stiffness", "_key">>
      [] cls = "TimeStepper" ->
            <<"dtmin", "dtmax", "max_retries", "opt_iter", "_key">>
      [] cls = "Control" ->
            <<"analysis", "time_steps", "step_size", "solver",
              "time_stepper", "output_level">>
      [] cls = "LoadController" -> <<"id", "type", "_key">>
      [] cls = "LoadData" -> <<"load_controllers">>
      [] cls = "FixedBoundary" -> <<"name", "node_set", "type", "_key", "dofs">>
      [] cls = "Boundary" -> <<"boundary_conditions">>
      [] cls = "Face" -> <<"type", "id", "nodes", "_key">>
      [] cls = "Surface" -> <<"name", "faces">>
      [] cls = "Mesh" -> <<"nodes", "elements", "node_sets", "surfaces">>
      [] cls = "Module" -> <<"type">>
      [] cls = "Globals" -> <<"R", "T", "Fc">>
      [] cls = "Feb" ->
            <<"module", "control", "globals", "material", "mesh",
              "mesh_domains", "boundary", "loads", "load_data", "output",
              "_version", "_key">>
      [] cls = "Nodes" -> <<"name", "coords", "ids">>
      [] cls = "Material" -> <<"materials">>
      [] cls = "PressureLoad" ->
            <<"name", "surface", "type", "_key", "pressure", "load_curve",
              "symmetric_stiffness", "linear", "shell_bottom">>
      [] cls = "NeoHookean" -> <<"name", "id", "type", "density", "E", "v">>
      [] cls = "CoupledMooneyRivlin" ->
            <<"name", "id", "type", "density", "c1", "c2", "k">>
      [] cls = "Elements" -> <<"name", "type", "elements", "ids">>
      [] cls = "NodeSet" -> <<"name", "node_ids", "node_sets">>
      [] cls = "LoadCurve" ->
            <<"id", "type", "_key", "points", "interpolate", "extra">>

Class(self) == self[2]

FieldIndex(cls, name) ==
    CHOOSE i \in 1..Len(Fields(cls)) : Fields(cls)[i] = name

HasField(cls, name) == \E i \in 1..Len(Fields(cls)) : Fields(cls)[i] = name

\* getattr(self, name)
getattr(self, name) == self[3][FieldIndex(Class(self), name)]

\* setattr, were the tag of a Face derived from its type at every assignment
setattr_retag(self, name, value) ==
    IF Class(self) = "Face" /\ name = "type"
    THEN [self EXCEPT ![3][FieldIndex("Face", "type")] = value,
                      ![3][FieldIndex("Face", "_key")] = Str(value[4])]
    ELSE [self EXCEPT ![3][FieldIndex(Class(self), name)] = value]

\* setattr(self, name, value): no hook runs, _key_map stays as it is
setattr(self, name, value) ==
    [self EXCEPT ![3][FieldIndex(Class(self), name)] = value]

\* self._key: the dataclass field where a class declares one, else the
\* property of FebBase, the class name
_key(self) ==
    IF HasField(Class(self), "_key") THEN PyStr(getattr(self, "_key"))
    ELSE Class(self)

\* the property FebBase._at_names, overridden by no class
_at_names(cls) == {}

FebBase_convert_key(cls, k) ==
    IF k \notin _at_names(cls) THEN prop_to_xml(k) ELSE "@" \o k

\* self._convert_key(key), with the overrides of LoadData, Loads and Output
_convert_key(cls, k) ==
    IF cls = "LoadData"
    THEN IF EndsWith(k, "s") THEN SubSeq(k, 1, Len(k) - 1)
         ELSE FebBase_convert_key(cls, k)
    ELSE FebBase_convert_key(cls, k)

\* the dict built by _populate_key_map: one entry per field but "_key"
_populate_key_map(cls) ==
    LET keys == SelectSeq(Fields(cls), LAMBDA name : name # "_key")
    IN  [i \in 1..Len(keys) |-> <<keys[i], _convert_key(cls, keys[i])>>]

\* FebBase.__post_init__ sets _key_map; a class that defines its own
\* __post_init__ without calling the base's has no _key_map attribute
OwnPostInit == {"Face", "Nodes", "Elements", "NodeSet", "LoadCurve"}

New(cls, attrs) ==
    IF cls \in OwnPostInit
    THEN <<"obj", cls, attrs, FALSE, <<>>>>
    ELSE <<"obj", cls, attrs, TRUE, _populate_key_map(cls)>>

-----------------------------------------------------------------------------
(* FebEnum *)

\* get_value with the member's name in place of its value
get_value_name(member) == Str(member[3])

\* FebEnum.get_value: the member's value
get_value(member) == Str(member[4])

\* isinstance(value, FebEnum), the FebEnum of feb_base.py
IsFebEnum(v) == Kind(v) = "enum" /\ v[2] \in {"LoadControllerType"}

-----------------------------------------------------------------------------
(* to_dict *)

RECURSIVE to_dict(_)

\* self._key_map[name]
KeyMapGet(self, name) ==
    IF ~self[4] THEN Raise("AttributeError")
    ELSE IF ~HasKey(self[5], name) THEN Raise("KeyError")
    ELSE Str(Get(self[5], name))

\* the inner function _to_dict of FebBase.to_dict, for the field `name`:
\* <<"ok", key, value>> or the exception raised
_to_dict(self, name, value) ==
    IF IsFebBase(value)
    THEN LET child == to_dict(value)
         IN  IF IsRaise(child) THEN child
             ELSE <<"ok", _convert_key(Class(self), _key(value)), child>>
    ELSE LET k == KeyMapGet(self, name)
         IN  IF IsRaise(k) THEN k ELSE <<"ok", k[2], value>>

\* the branches of the loop body that write to _dict: the dict after the
\* write, or the exception raised
FebBase_emit(self, name, field_val, _dict) ==
    IF IsList(field_val)
    THEN LET items == field_val[2]
             rs == [i \in 1..Len(items) |-> _to_dict(self, name, items[i])]
             k == KeyMapGet(self, name)
         IN  IF \E i \in 1..Len(rs) : IsRaise(rs[i])
             THEN rs[CHOOSE i \in 1..Len(rs) :
                        IsRaise(rs[i]) /\ \A j \in 1..(i - 1) : ~IsRaise(rs[j])]
             ELSE IF IsRaise(k) THEN k
             ELSE Dict(DictSet(_dict, k[2],
                               List([i \in 1..Len(rs) |-> rs[i][3]])))
    ELSE IF IsFebEnum(field_val)
    THEN LET k == KeyMapGet(self, name)
         IN  IF IsRaise(k) THEN k
             ELSE Dict(DictSet(_dict, k[2], get_value(field_val)))
    ELSE LET r == _to_dict(self, name, field_val)
         IN  IF IsRaise(r) THEN r ELSE Dict(DictSet(_dict, r[2], r[3]))

\* the loop body without the test that skips the field "_key"
FebBase_field_no_key_skip(self, name, _dict) ==
    LET field_val == getattr(self, name) IN
    IF field_val = None THEN Dict(_dict)
    ELSE FebBase_emit(self, name, field_val, _dict)

\* one iteration of `for field in fields(self)`: the two tests that skip a
\* field, then the write
FebBase_field(self, name, _dict) ==
    LET field_val == getattr(self, name) IN
    IF name = "_key" THEN Dict(_dict)
    ELSE IF field_val = None THEN Dict(_dict)
    ELSE FebBase_emit(self, name, field_val, _dict)

RECURSIVE FebBase_fields(_, _, _)
\* the loop over fields(self), from the field names `names` on
FebBase_fields(self, names, _dict) ==
    IF names = <<>> THEN Dict(_dict)
    ELSE LET d == FebBase_field(self, Head(names), _dict)
         IN  IF IsRaise(d) THEN d ELSE FebBase_fields(self, Tail(names), d[2])

\* the return statement with the two utilities in the other order
FebBase_return_prune_first(_dict) == unlist_dict(prune_dict(_dict, TRUE))

\* the return statement of FebBase.to_dict
FebBase_return(_dict) == prune_dict(unlist_dict(_dict), TRUE)

\* the generic FebBase.to_dict
FebBase_to_dict(self) ==
    LET d == FebBase_fields(self, Fields(Class(self)), <<>>)
    IN  IF IsRaise(d) THEN d ELSE Dict(FebBase_return(d[2]))

\* FixedBoundary.to_dict that joins the dofs with a blank
FixedBoundary_to_dict_blank(self) ==
    Dict(<< <<"@name", getattr(self, "name")>>,
            <<"@type", Str(getattr(self, "type")[4])>>,
            <<"@node_set", getattr(self, "node_set")>>,
            <<"dofs", Str(Join(" ", getattr(self, "dofs")[2]))>> >>)

\* FixedBoundary.to_dict
FixedBoundary_to_dict(self) ==
    Dict(<< <<"@name", getattr(self, "name")>>,
            <<"@type", Str(getattr(self, "type")[4])>>,
            <<"@node_set", getattr(self, "node_set")>>,
            <<"dofs", Str(Join(",", getattr(self, "dofs")[2]))>> >>)

\* Boundary.to_dict: the comprehension iterates self.boundary_conditions
Boundary_to_dict(self) ==
    LET bcs == getattr(self, "boundary_conditions") IN
    IF ~IsList(bcs) THEN Raise("TypeError")
    ELSE LET ds == [i \in 1..PyLen(bcs) |-> to_dict(bcs[2][i])]
         IN  Dict(prune_dict(<< <<"bc", List(ds)>> >>, FALSE))

-----------------------------------------------------------------------------
(* Face and Surface *)

IsDigit(ch) == ch \in {"0", "1", "2", "3", "4", "5", "6", "7", "8", "9"}

RECURSIVE DigitsToInt(_, _)
\* int("".join([ch for ch in s if ch.isnumeric()])), acc the value so far
DigitsToInt(s, acc) ==
    IF Len(s) = 0 THEN acc
    ELSE LET ch == SubSeq(s, 1, 1) IN
         IF IsDigit(ch)
         THEN DigitsToInt(SubSeq(s, 2, Len(s)),
                          10 * acc + (CHOOSE d \in 0..9 : ToString(d) = ch))
         ELSE DigitsToInt(SubSeq(s, 2, Len(s)), acc)

\* Face(type, id, nodes, _key) with its __post_init__
Face(type, id, nodes, k) ==
    LET num_elements == DigitsToInt(get_value(type)[2], 0) IN
    IF ndim(nodes) # 1 \/ shape(nodes) # Tuple(<<PyInt(num_elements)>>)
    THEN ArrayShapeError("nodes", shape(nodes),
                         Str("(" \o ToString(num_elements) \o ",)"),
                         Str("for type '" \o EnumStr(type) \o "'"))
    ELSE New("Face",
             <<type, id, nodes, IF k = None THEN get_value(type) ELSE k>>)

\* _group_faces that starts a new list for every face
group_face_replace(grouped_faces, face) ==
    DictSet(grouped_faces, get_value(getattr(face, "type"))[2], <<face>>)

\* the loop body of Surface._group_faces
group_face(grouped_faces, face) ==
    LET t == get_value(getattr(face, "type"))[2] IN
    IF ~HasKey(grouped_faces, t)
    THEN DictSet(grouped_faces, t, <<face>>)
    ELSE DictSet(grouped_faces, t, Append(Get(grouped_faces, t), face))

RECURSIVE _group_faces(_, _)
\* Surface._group_faces, from the faces `faces` on: type -> faces
_group_faces(faces, grouped_faces) ==
    IF faces = <<>> THEN grouped_faces
    ELSE _group_faces(Tail(faces), group_face(grouped_faces, Head(faces)))

\* the entry Surface.to_dict writes for one face
FaceEntry(face) ==
    Dict(<< <<"@id", getattr(face, "id")>>,
            <<"#text", Str(Join(",", getattr(face, "nodes")[2]))>> >>)

RECURSIVE DictUpdate(_, _)
\* d.update(**other)
DictUpdate(pairs, other) ==
    IF other = <<>> THEN pairs
    ELSE DictUpdate(DictSet(pairs, other[1][1], other[1][2]), Tail(other))

\* Surface.to_dict
Surface_to_dict(self) ==
    LET faces == getattr(self, "faces") IN
    IF ~IsList(faces) THEN Raise("TypeError")
    ELSE LET groups == _group_faces(faces[2], <<>>)
             grouped_faces ==
                 [i \in 1..Len(groups) |->
                     <<groups[i][1],
                       List([j \in 1..Len(groups[i][2]) |->
                                FaceEntry(groups[i][2][j])])>>]
             unlist_grouped_faces == unlist_dict(grouped_faces)
         IN  Dict(DictUpdate(<< <<"@name", getattr(self, "name")>> >>,
                             unlist_grouped_faces))

-----------------------------------------------------------------------------
(* Nodes, Elements, NodeSet and LoadCurve *)

\* Nodes(name, coords, ids) with its __post_init__
Nodes(name, coords, ids) ==
    IF ndim(coords) # 2 \/ coords[3] # 3
    THEN ArrayShapeError("coords", shape(coords), Str("(n, 3)"), None)
    ELSE IF ndim(ids) # 1 \/ PyLen(ids) # PyLen(coords)
    THEN ArrayShapeError("ids", shape(ids),
                         Str("((" \o ToString(PyLen(coords)) \o ",),)"), None)
    ELSE New("Nodes", <<name, coords, ids>>)

\* Elements(...) that compares the number of rows with the node count
Elements_rows_for_columns(name, type, elements, ids) ==
    LET num_elements == DigitsToInt(get_value(type)[2], 0) IN
    IF ndim(elements) # 2 \/ PyLen(elements) # num_elements
    THEN ArrayShapeError("elements", shape(elements),
                         Str("(n, " \o ToString(num_elements) \o ",)"),
                         Str("for type '" \o EnumStr(type) \o "'"))
    ELSE IF ndim(ids) # 1 \/ PyLen(ids) # PyLen(elements)
    THEN ArrayShapeError("ids", shape(ids),
                         Str("(" \o ToString(PyLen(elements)) \o ",)"), None)
    ELSE New("Elements", <<name, type, elements, ids>>)

\* Elements(name, type, elements, ids) with its __post_init__
Elements(name, type, elements, ids) ==
    LET num_elements == DigitsToInt(get_value(type)[2], 0) IN
    IF ndim(elements) # 2 \/ elements[3] # num_elements
    THEN ArrayShapeError("elements", shape(elements),
                         Str("(n, " \o ToString(num_elements) \o ",)"),
                         Str("for type '" \o EnumStr(type) \o "'"))
    ELSE IF ndim(ids) # 1 \/ PyLen(ids) # PyLen(elements)
    THEN ArrayShapeError("ids", shape(ids),
                         Str("(" \o ToString(PyLen(elements)) \o ",)"), None)
    ELSE New("Elements", <<name, type, elements, ids>>)

\* NodeSet(name, node_ids, node_sets) with its __post_init__
NodeSet(name, node_ids, node_sets) ==
    IF node_ids # None /\ ndim(node_ids) # 1
    THEN ArrayShapeError("ids", shape(node_ids), Str("(n,)"), None)
    ELSE New("NodeSet", <<name, node_ids, node_sets>>)

\* LoadControllerType.LOAD_CURVE, the default of LoadCurve.type
LOAD_CURVE == <<"enum", "LoadControllerType", "LOAD_CURVE", "loadcurve">>

\* LoadCurve(...) that accepts one point
LoadCurve_one_point(id, points, interpolate, extra) ==
    IF Kind(points) = "ndarray"
       /\ ~(ndim(points) = 2 /\ PyLen(points) >= 1 /\ points[3] = 2)
    THEN ArrayShapeError("points", shape(points),
                         Str("(n, 2), where n >= 2"), None)
    ELSE IF IsList(points) /\ PyLen(points) < 1
    THEN ArrayShapeError("points", PyInt(PyLen(points)),
                         Str("(n, 2), where n >= 2"), None)
    ELSE New("LoadCurve", <<id, LOAD_CURVE, Str("load_controller"),
                            points, interpolate, extra>>)

\* LoadCurve(id, points, interpolate, extra) with its __post_init__; type is
\* not a parameter and _key keeps the default of LoadController
LoadCurve(id, points, interpolate, extra) ==
    IF Kind(points) = "ndarray"
       /\ ~(ndim(points) = 2 /\ PyLen(points) >= 2 /\ points[3] = 2)
    THEN ArrayShapeError("points", shape(points),
                         Str("(n, 2), where n >= 2"), None)
    ELSE IF IsList(points) /\ PyLen(points) < 2
    THEN ArrayShapeError("points", PyInt(PyLen(points)),
                         Str("(n, 2), where n >= 2"), None)
    ELSE New("LoadCurve", <<id, LOAD_CURVE, Str("load_controller"),
                            points, interpolate, extra>>)

\* min(len(a), len(b)): where zip stops
ZipLen(a, b) == IF PyLen(a) <= PyLen(b) THEN PyLen(a) ELSE PyLen(b)

\* ",".join(map(str, row)): a row that is a scalar cannot be iterated
JoinRow(row) ==
    IF Kind(row) \in {"ndarray", "tuple", "list"}
    THEN Str(Join(",", row[2]))
    ELSE Raise("TypeError")

\* [{"@id": _id, "#text": ",".join(map(str, row))} for _id, row in
\* zip(ids, rows)]
ZipEntries(ids, rows) ==
    LET texts == [i \in 1..ZipLen(ids, rows) |-> JoinRow(rows[2][i])] IN
    IF \E i \in 1..Len(texts) : IsRaise(texts[i])
    THEN Raise("TypeError")
    ELSE List([i \in 1..Len(texts) |->
                 Dict(<< <<"@id", ids[2][i]>>, <<"#text", texts[i]>> >>)])

\* Nodes.to_dict
Nodes_to_dict(self) ==
    LET node == ZipEntries(getattr(self, "ids"), getattr(self, "coords")) IN
    IF IsRaise(node) THEN node
    ELSE Dict(unlist_dict(<< <<"@name", getattr(self, "name")>>,
                             <<"node", node>> >>))

\* the dict Elements.to_dict returns, given the list under "elem"
Elements_dict(self, elem) ==
    Dict(unlist_dict(<< <<"@type", get_value(getattr(self, "type"))>>,
                        <<"@name", getattr(self, "name")>>,
                        <<"elem", elem>> >>))

\* Elements.to_dict that validates the arrays as the constructor does
Elements_to_dict_validating(self) ==
    LET again == Elements(getattr(self, "name"), getattr(self, "type"),
                          getattr(self, "elements"), getattr(self, "ids"))
        elem == ZipEntries(getattr(self, "ids"), getattr(self, "elements"))
    IN  IF IsRaise(again) THEN again
        ELSE IF IsRaise(elem) THEN elem
        ELSE Elements_dict(self, elem)

\* Elements.to_dict
Elements_to_dict(self) ==
    LET elem == ZipEntries(getattr(self, "ids"), getattr(self, "elements")) IN
    IF IsRaise(elem) THEN elem ELSE Elements_dict(self, elem)

\* NodeSet.to_dict: the values are the fields as they are
NodeSet_to_dict(self) ==
    Dict(prune_dict(<< <<"@name", getattr(self, "name")>>,
                       <<"node", getattr(self, "node_ids")>>,
                       <<"node_sets", getattr(self, "node_sets")>> >>, FALSE))

\* s.upper() for the literals of interpolate and extra
upper(s) ==
    CASE s = "step" -> "STEP"
      [] s = "linear" -> "LINEAR"
      [] s = "smooth" -> "SMOOTH"
      [] s = "constant" -> "CONSTANT"
      [] s = "extrapolate" -> "EXTRAPOLATE"
      [] s = "repeat" -> "REPEAT"
      [] s = "repeat offset" -> "REPEAT OFFSET"

\* the inner function _try_upper of LoadCurve.to_dict
_try_upper(s) == IF s # None THEN Str(upper(s[2])) ELSE None

\* LoadCurve.to_dict
LoadCurve_to_dict(self) ==
    LET points == getattr(self, "points")
        _points == [i \in 1..PyLen(points) |-> JoinRow(points[2][i])]
    IN  IF \E i \in 1..Len(_points) : IsRaise(_points[i])
        THEN Raise("TypeError")
        ELSE Dict(prune_dict(
                << <<"@id", getattr(self, "id")>>,
                   <<"@type", get_value(getattr(self, "type"))>>,
                   <<"interpolate", _try_upper(getattr(self, "interpolate"))>>,
                   <<"extra", _try_upper(getattr(self, "extra"))>>,
                   <<"points", Dict(<< <<"point", List(_points)>> >>)>> >>,
                FALSE))

-----------------------------------------------------------------------------
(* PressureLoad *)

PRESSURE == <<"enum", "SurfaceLoadType", "PRESSURE", "pressure">>

\* the inner function _bint of PressureLoad.to_dict
_bint(b) == IF b # None THEN PyInt(IF b[2] THEN 1 ELSE 0) ELSE None

\* PressureLoad.to_dict that tests the truth of load_curve, not `is not None`
PressureLoad_to_dict_truthy(self) ==
    LET load_curve == getattr(self, "load_curve")
        _pressure ==
            IF load_curve # None /\ load_curve # PyInt(0)
            THEN Dict(<< <<"@lc", load_curve>>,
                         <<"#text", Str(PyStr(getattr(self, "pressure")))>> >>)
            ELSE getattr(self, "pressure")
    IN  Dict(prune_dict(
            << <<"@name", getattr(self, "name")>>,
               <<"@surface", getattr(self, "surface")>>,
               <<"@type", get_value(getattr(self, "type"))>>,
               <<"pressure", _pressure>>,
               <<"symmetric_stiffness", _bint(getattr(self, "symmetric_stiffness"))>>,
               <<"linear", _bint(getattr(self, "linear"))>>,
               <<"shell_bottom", _bint(getattr(self, "shell_bottom"))>> >>,
            FALSE))

\* PressureLoad.to_dict
PressureLoad_to_dict(self) ==
    LET load_curve == getattr(self, "load_curve")
        _pressure ==
            IF load_curve # None
            THEN Dict(<< <<"@lc", load_curve>>,
                         <<"#text", Str(PyStr(getattr(self, "pressure")))>> >>)
            ELSE getattr(self, "pressure")
    IN  Dict(prune_dict(
            << <<"@name", getattr(self, "name")>>,
               <<"@surface", getattr(self, "surface")>>,
               <<"@type", get_value(getattr(self, "type"))>>,
               <<"pressure", _pressure>>,
               <<"symmetric_stiffness", _bint(getattr(self, "symmetric_stiffness"))>>,
               <<"linear", _bint(getattr(self, "linear"))>>,
               <<"shell_bottom", _bint(getattr(self, "shell_bottom"))>> >>,
            FALSE))

-----------------------------------------------------------------------------
(* Material *)

NEO_HOOKEAN == <<"enum", "MaterialType", "NEO_HOOKEAN", "neo-Hookean">>

COUPLED_MOONEY_RIVLIN ==
    <<"enum", "MaterialType", "COUPLED_MOONEY_RIVLIN", "coupled Mooney-Rivlin">>

\* NeoHookean(name, id, density, E, v) and CoupledMooneyRivlin(name, id,
\* density, c1, c2, k): plain dataclasses, `type` takes its default
NeoHookean(name, id, density, E, v) ==
    <<"obj", "NeoHookean", <<name, id, NEO_HOOKEAN, density, E, v>>, FALSE, <<>>>>

CoupledMooneyRivlin(name, id, density, c1, c2, k) ==
    <<"obj", "CoupledMooneyRivlin",
      <<name, id, COUPLED_MOONEY_RIVLIN, density, c1, c2, k>>, FALSE, <<>>>>

\* the _convert_key that Material inherits: the default naming convention
Base_convert_key(k) == prop_to_xml(k)

\* Material._convert_key that marks only "id" as an attribute
Material_convert_key_id_only(k) ==
    IF k \in {"id"} THEN "@" \o k ELSE Base_convert_key(k)

\* Material._convert_key
Material_convert_key(k) ==
    IF k \in {"id", "name", "type"} THEN "@" \o k ELSE Base_convert_key(k)

\* the inner function _getattr of Material.to_dict
Material_getattr(material, name) ==
    IF name = "type" THEN Str(getattr(material, name)[4])
    ELSE getattr(material, name)

\* the mapping Material.to_dict builds for one material
MaterialEntry(material) ==
    LET names == Fields(Class(material)) IN
    Dict([i \in 1..Len(names) |->
            <<Material_convert_key(names[i]),
              Material_getattr(material, names[i])>>])

\* Material.to_dict
Material_to_dict(self) ==
    LET materials == IF IsList(getattr(self, "materials"))
                     THEN getattr(self, "materials")[2]
                     ELSE <<getattr(self, "materials")>>
        _dict == << <<"material",
                      List([i \in 1..Len(materials) |->
                               MaterialEntry(materials[i])])>> >>
    IN  Dict(unlist_dict(_dict))

-----------------------------------------------------------------------------
(* Mesh, Module, Globals and Feb *)

\* [item.to_dict() for item in items]: the list, or the first exception
ToDictEach(items) ==
    IF ~IsList(items) THEN Raise("TypeError")
    ELSE LET ds == [i \in 1..PyLen(items) |-> to_dict(items[2][i])] IN
         IF \E i \in 1..Len(ds) : IsRaise(ds[i])
         THEN ds[CHOOSE i \in 1..Len(ds) :
                    IsRaise(ds[i]) /\ \A j \in 1..(i - 1) : ~IsRaise(ds[j])]
         ELSE List(ds)

\* Mesh.to_dict
Mesh_to_dict(self) ==
    LET names == <<"nodes", "elements", "node_sets", "surfaces">>
        keys == <<"Nodes", "Elements", "NodeSet", "Surface">>
        lists == [i \in 1..4 |-> ToDictEach(getattr(self, names[i]))]
    IN  IF \E i \in 1..4 : IsRaise(lists[i])
        THEN lists[CHOOSE i \in 1..4 :
                      IsRaise(lists[i]) /\ \A j \in 1..(i - 1) : ~IsRaise(lists[j])]
        ELSE Dict(prune_dict([i \in 1..4 |-> <<keys[i], lists[i]>>], FALSE))

\* Module.to_dict
Module_to_dict(self) == Dict(<< <<"@type", getattr(self, "type")>> >>)

\* Globals.to_dict: dataclasses.asdict under "Constants"
Globals_to_dict(self) ==
    Dict(<< <<"Constants",
              Dict([i \in 1..Len(Fields("Globals")) |->
                      <<Fields("Globals")[i], self[3][i]>>])>> >>)

\* Feb.to_dict without the outer key
Feb_to_dict_unwrapped(self) == FebBase_to_dict(self)

\* Feb.to_dict: the generic mapping under the key self._key
Feb_to_dict(self) ==
    LET inner == FebBase_to_dict(self) IN
    IF IsRaise(inner) THEN inner ELSE Dict(<< <<_key(self), inner>> >>)

\* value.to_dict(): the method of the value's class
to_dict(self) ==
    CASE Class(self) = "FixedBoundary" -> FixedBoundary_to_dict(self)
      [] Class(self) = "Boundary" -> Boundary_to_dict(self)
      [] Class(self) = "Surface" -> Surface_to_dict(self)
      [] Class(self) = "Nodes" -> Nodes_to_dict(self)
      [] Class(self) = "Elements" -> Elements_to_dict(self)
      [] Class(self) = "NodeSet" -> NodeSet_to_dict(self)
      [] Class(self) = "LoadCurve" -> LoadCurve_to_dict(self)
      [] Class(self) = "Mesh" -> Mesh_to_dict(self)
      [] Class(self) = "Module" -> Module_to_dict(self)
      [] Class(self) = "Globals" -> Globals_to_dict(self)
      [] Class(self) = "Feb" -> Feb_to_dict(self)
      [] Class(self) = "PressureLoad" -> PressureLoad_to_dict(self)
      [] Class(self) = "Material" -> Material_to_dict(self)
      [] OTHER -> FebBase_to_dict(self)

-----------------------------------------------------------------------------
(* The generic to_dict, statement by statement, as run by several threads *)

\* the classes whose to_dict is FebBase.to_dict
InheritsToDict(cls) ==
    cls \in {"Solver", "TimeStepper", "Control", "LoadController", "LoadData"}

\* the frame of a call self.to_dict(): the position `i` of the loop in
\* fields(self), the local _dict, and the list `items` that the list
\* comprehension has built so far
Frame(self) == [self |-> self, i |-> 1, _dict |-> <<>>, items |-> <<>>]

\* the field the loop of the frame is at, and its value
FrameField(f) == Fields(Class(f.self))[f.i]

FrameValue(f) == getattr(f.self, FrameField(f))

\* the frame the thread t runs: the last of its stack
Top(stacks, t) == stacks[t][Len(stacks[t])]

\* the accumulator of a frame, were it one dict for all calls rather than
\* a local of each call
LocalDict_shared(stacks, t) ==
    IF stacks[1] = <<>> THEN Top(stacks, t)._dict ELSE Top(stacks, 1)._dict

\* the local _dict of the call the thread t runs
LocalDict(stacks, t) == Top(stacks, t)._dict

\* the state of a thread: the stack of its calls and what its outermost
\* call returned or raised (None while it runs)
Running(stack) == [stack |-> stack, result |-> None]

Finished(value) == [stack |-> <<>>, result |-> value]

\* the stack with its top frame replaced
WithTop(stack, f) == [stack EXCEPT ![Len(stack)] = f]

\* the loop of the top frame goes on to the next field, with _dict as d
NextField(stack, d) ==
    LET f == stack[Len(stack)] IN
    Running(WithTop(stack, [f EXCEPT !.i = @ + 1, !._dict = d,
                                     !.items = <<>>]))

\* a call value.to_dict() made by the frame below has returned `ret`: in
\* the list comprehension it is the next item, otherwise the frame stores it
\* under the converted key of the child
Deliver(stacks, t, ret) ==
    LET stack == stacks[t]
        f == Top(stacks, t)
    IN  IF IsList(FrameValue(f))
        THEN Running(WithTop(stack, [f EXCEPT !.items = Append(@, ret)]))
        ELSE NextField(stack,
                 DictSet(LocalDict(stacks, t),
                         _convert_key(Class(f.self), _key(FrameValue(f))),
                         ret))

\* a call value.to_dict() made by the top frame has ended with `ret`: an
\* exception ends the thread, a mapping is delivered to the frame
Called(stacks, t, ret) ==
    IF IsRaise(ret) THEN Finished(ret) ELSE Deliver(stacks, t, ret)

\* the next statement of the thread t: one test or write of the loop, one
\* item of the list comprehension, a call of a child's to_dict, or the
\* return statement. A child whose class has a to_dict of its own runs it
\* within the step.
Step(stacks, t) ==
    LET stack == stacks[t]
        f == Top(stacks, t)
        d == LocalDict(stacks, t)
    IN  IF f.i > Len(Fields(Class(f.self)))
        THEN LET ret == Dict(FebBase_return(d)) IN
             IF Len(stack) = 1 THEN Finished(ret)
             ELSE Deliver([stacks EXCEPT ![t] = SubSeq(stack, 1, Len(stack) - 1)],
                          t, ret)
        ELSE IF FrameField(f) = "_key" \/ FrameValue(f) = None
        THEN NextField(stack, d)
        ELSE
        LET field_val == FrameValue(f)
            k == KeyMapGet(f.self, FrameField(f))
            built == IsList(field_val) /\ Len(f.items) = Len(field_val[2])
            value == IF ~IsList(field_val) THEN field_val
                     ELSE IF built THEN None
                     ELSE field_val[2][Len(f.items) + 1]
        IN  IF built
            THEN IF IsRaise(k) THEN Finished(k)
                 ELSE NextField(stack, DictSet(d, k[2], List(f.items)))
            ELSE IF IsFebBase(value)
            THEN IF InheritsToDict(Class(value))
                 THEN Running(Append(stack, Frame(value)))
                 ELSE Called(stacks, t, to_dict(value))
            ELSE IF IsRaise(k) THEN Finished(k)
            ELSE IF IsList(field_val)
            THEN Running(WithTop(stack, [f EXCEPT !.items = Append(@, value)]))
            ELSE IF IsFebEnum(value)
            THEN NextField(stack, DictSet(d, k[2], get_value(value)))
            ELSE NextField(stack, DictSet(d, k[2], value))

-----------------------------------------------------------------------------
(* convert_to_materials *)

\* the module-level material_dict: type value -> material class, one entry
\* per subclass of BaseMaterial
material_dict ==
    << <<"neo-Hookean", "NeoHookean">>,
       <<"coupled Mooney-Rivlin", "CoupledMooneyRivlin">> >>

\* the default of the field `type` of a material class
TypeDefault(cls) ==
    IF cls = "NeoHookean" THEN NEO_HOOKEAN ELSE COUPLED_MOONEY_RIVLIN

\* the annotation of a field of a material class
Annotation(name) ==
    CASE name = "name" -> "str"
      [] name = "id" -> "int"
      [] OTHER -> "float"

RECURSIVE from_dict_fields(_, _, _, _)
\* dacite fills the fields `names` of data_class one by one from data: a
\* missing key of a field without default raises MissingValueError, a value
\* that is no instance of the annotation WrongTypeError; attrs are the
\* values so far
from_dict_fields(data_class, names, data, attrs) ==
    IF names = <<>> THEN <<"obj", data_class, attrs, FALSE, <<>>>>
    ELSE LET name == Head(names) IN
         IF name = "type"
         THEN from_dict_fields(data_class, Tail(names), data,
                               Append(attrs, TypeDefault(data_class)))
         ELSE IF ~HasKey(data, name) THEN Raise("MissingValueError")
         ELSE IF Kind(Get(data, name)) # Annotation(name)
         THEN Raise("WrongTypeError")
         ELSE from_dict_fields(data_class, Tail(names), data,
                               Append(attrs, Get(data, name)))

\* dacite.core.from_dict(data_class=..., data=...): keys of data that are
\* no field are ignored; `type` is no parameter and takes its default
from_dict(data_class, data) ==
    from_dict_fields(data_class, Fields(data_class), data, <<>>)

\* the loop body with "neo-Hookean" for a bag that has no "mat_type"
convert_material_default_type(name, bag) ==
    LET mat_type == IF HasKey(bag, "mat_type")
                    THEN Get(bag, "mat_type")[2] ELSE "neo-Hookean"
        _data == DictSet(DictPop(bag, "mat_type"), "name", Str(name))
    IN  IF ~HasKey(material_dict, mat_type)
        THEN Raise("UnknownMaterialError")
        ELSE from_dict(Get(material_dict, mat_type), _data)

\* the body of the loop of convert_to_materials for one name: the material
\* appended to material_list, or the exception raised
convert_material(name, bag) ==
    IF ~HasKey(bag, "mat_type") THEN Raise("UnknownMaterialError")
    ELSE LET mat_type == Get(bag, "mat_type")[2]
             _data == DictSet(DictPop(bag, "mat_type"), "name", Str(name))
         IN  IF ~HasKey(material_dict, mat_type)
             THEN Raise("UnknownMaterialError")
             ELSE from_dict(Get(material_dict, mat_type), _data)

RECURSIVE convert_loop(_, _)
\* `for name in materials_dict`, from the entries `entries` on
convert_loop(entries, material_list) ==
    IF entries = <<>> THEN List(material_list)
    ELSE LET m == convert_material(Head(entries)[1], Head(entries)[2][2]) IN
         IF IsRaise(m) THEN m
         ELSE convert_loop(Tail(entries), Append(material_list, m))

\* the caller's bag after the loop body, were _data the bag itself and not
\* a copy of it
caller_bag_no_copy(name, bag) ==
    IF ~HasKey(bag, "mat_type") THEN bag
    ELSE DictSet(DictPop(bag, "mat_type"), "name", Str(name))

\* the caller's bag after the loop body: _data is a copy of it, and the
\* pop and the assignment of the loop body act on the copy
caller_bag(name, bag) == bag

RECURSIVE caller_entries(_)
\* the entries of the caller's mapping after the loop, from the entries
\* `entries` on: the loop body has run for every entry up to the first that
\* raised
caller_entries(entries) ==
    IF entries = <<>> THEN <<>>
    ELSE LET name == Head(entries)[1]
             bag == Head(entries)[2][2]
             after == <<name, Dict(caller_bag(name, bag))>>
         IN  IF IsRaise(convert_material(name, bag))
             THEN <<after>> \o Tail(entries)
             ELSE <<after>> \o caller_entries(Tail(entries))

\* the caller's materials_dict after convert_to_materials
materials_dict_after(materials_dict) == Dict(caller_entries(materials_dict[2]))

\* np.unique(element_materials), as a set
unique(array) == {array[2][i] : i \in 1..PyLen(array)}

\* convert_to_materials(element_materials, materials_dict)
convert_to_materials(element_materials, materials_dict) ==
    LET material_list == convert_loop(materials_dict[2], <<>>) IN
    IF IsRaise(material_list) THEN material_list
    ELSE List(SelectSeq(material_list[2],
                 LAMBDA material :
                    getattr(material, "id") \in unique(element_materials)))

-----------------------------------------------------------------------------
(* The records a caller can construct, within the bounds *)

\* all sequences over S of length 0..n
SeqsUpTo(S, n) == UNION {[1..m -> S] : m \in 0..n}

MATH == <<"enum", "LoadControllerType", "MATH", "math">>

FIX == <<"enum", "BoundaryType", "FIX", "fix">>

TRI3 == <<"enum", "FaceType", "TRI3", "tri3">>

TET4 == <<"enum", "ElementType", "TET4", "tet4">>

QUAD4 == <<"enum", "FaceType", "QUAD4", "quad4">>

\* Solver(...): every field is optional; _key is a constructor parameter
Solvers ==
    LET n == Len(Fields("Solver")) - 1
        Value(i) == IF Fields("Solver")[i] = "qnmethod"
                    THEN Str("BFGS") ELSE PyInt(1)
    IN  {New("Solver",
             [i \in 1..(n + 1) |->
                 IF i = n + 1 THEN Str(k)
                 ELSE IF i \in S THEN Value(i) ELSE None]) :
            S \in {T \in SUBSET (1..n) : Cardinality(T) <= MaxSet},
            k \in {"solver", "analysis"}}

\* TimeStepper(...)
TimeSteppers ==
    {New("TimeStepper", <<d[1], d[2], r, o, Str(k)>>) :
        d \in {<<PyInt(1), PyInt(2)>>, <<None, None>>},
        r \in {None, PyInt(5)}, o \in {None, PyInt(10)},
        k \in {"time_stepper", "solver"}}

\* Control(...)
Controls ==
    {New("Control", <<a, PyInt(1), Str("0.1"), s, t, o>>) :
        a \in {None, Str("STATIC")},
        s \in {None} \cup Solvers,
        t \in {None} \cup TimeSteppers,
        o \in {None, Str("OUTPUT_FINAL")}}

\* LoadController(id, type) and LoadController(id, MATH, _key): _key is a
\* constructor parameter
LoadControllers ==
    {New("LoadController", <<i, t, Str("load_controller")>>) :
        i \in {None, PyInt(1)}, t \in {None, LOAD_CURVE, MATH}}
    \cup {New("LoadController", <<i, MATH, Str("math_controller")>>) :
            i \in {None, PyInt(1)}}

\* LoadData(load_controllers)
LoadDatas ==
    {New("LoadData", <<l>>) :
        l \in {None} \cup {List(q) : q \in SeqsUpTo(LoadControllers, MaxList)}}

\* the tuples given as dofs
Dofs == {<<>>, <<Str("x")>>, <<Str("x"), Str("y"), Str("z")>>}

\* FixedBoundary(name, node_set, dofs): type and _key are not parameters
FixedBoundaries ==
    {New("FixedBoundary", <<Str(n), Str("ns"), FIX, Str("bc"), Tuple(d)>>) :
        n \in {"f", "g"}, d \in Dofs}

\* Boundary(boundary_conditions): one condition or a list of conditions
Boundaries ==
    {New("Boundary", <<b>>) :
        b \in FixedBoundaries
              \cup {List(q) : q \in SeqsUpTo(FixedBoundaries, MaxList)}}

\* the Face(type, id, nodes) calls that return
Faces ==
    LET calls == {Face(t, PyInt(i), NdArray([j \in 1..n |-> PyInt(j)]), None) :
                     t \in {TRI3, QUAD4}, i \in 1..MaxFaceId, n \in {3, 4}}
    IN  {f \in calls : ~IsRaise(f)}

\* Surface(name, faces)
Surfaces ==
    {New("Surface", <<Str("s"), List(q)>>) : q \in SeqsUpTo(Faces, MaxFaces)}

\* Face(type, id, nodes, _key): faces constructed with an explicit tag
TaggedFaces ==
    {Face(TRI3, PyInt(1), NdArray(<<PyInt(1), PyInt(2), PyInt(3)>>), Str("face")),
     Face(TRI3, PyInt(2), NdArray(<<PyInt(1), PyInt(2), PyInt(3)>>), Str("quad4"))}

\* surfaces of up to two faces, at least one of them with an explicit tag
TaggedSurfaces ==
    LET faces == TaggedFaces
                 \cup {Face(QUAD4, PyInt(1), NdArray([j \in 1..4 |-> PyInt(j)]),
                            None)}
    IN  {New("Surface", <<Str("s"), List(q)>>) :
            q \in {p \in SeqsUpTo(faces, 2) :
                      \E i \in 1..Len(p) : p[i] \in TaggedFaces}}

\* Mesh() and a Mesh of one Nodes, one Elements, one NodeSet and one Surface
Meshes ==
    {New("Mesh", <<List(<<>>), List(<<>>), List(<<>>), List(<<>>)>>),
     New("Mesh",
         <<List(<<Nodes(Str("n"), zeros(<<1, 3>>), zeros(<<1>>))>>),
           List(<<Elements(Str("e"), TET4, zeros(<<1, 4>>), zeros(<<1>>))>>),
           List(<<NodeSet(Str("s"), zeros(<<1>>), None)>>),
           List(<<New("Surface",
                      <<Str("s"),
                        List(<<Face(TRI3, PyInt(1), zeros(<<3>>), None)>>)>>)>>)>>)}

\* Mesh(nodes, elements, node_sets, surfaces): each list empty or of one
\* record
MeshRoots ==
    LET one == <<List(<<Nodes(Str("n"), zeros(<<1, 3>>), zeros(<<1>>))>>),
                 List(<<Elements(Str("e"), TET4, zeros(<<1, 4>>), zeros(<<1>>))>>),
                 List(<<NodeSet(Str("s"), zeros(<<1>>), None)>>),
                 List(<<New("Surface",
                            <<Str("s"),
                              List(<<Face(TRI3, PyInt(1), zeros(<<3>>), None)>>)>>)>>)>>
    IN  {New("Mesh", [i \in 1..4 |-> IF i \in S THEN one[i] ELSE List(<<>>)]) :
            S \in SUBSET (1..4)}

\* PressureLoad(name, surface, pressure, load_curve, symmetric_stiffness,
\* linear, shell_bottom); type and _key are no parameters
PressureLoads ==
    LET flags == {None, Bool(TRUE), Bool(FALSE)} IN
    {New("PressureLoad",
         <<Str("pressure_1"), Str("surface_1"), PRESSURE, Str("surface_load"),
           p, c, s, l, b>>) :
        p \in {Float("0.016"), Float("0.0")},
        c \in {None, PyInt(0), PyInt(1)},
        s \in flags, l \in flags, b \in flags}

\* the material records given to Material
MaterialRecords ==
    {NeoHookean(Str("arterial"), PyInt(1), Float("1.0"), Float("0.3"),
                Float("0.48")),
     CoupledMooneyRivlin(Str("calcium"), PyInt(2), Float("1.0"), Float("0.46"),
                         Float("0.48"), Float("0.5"))}

\* Material(materials): a bare material or a list of materials
Materials ==
    {New("Material", <<m>>) :
        m \in MaterialRecords
               \cup {List(q) : q \in SeqsUpTo(MaterialRecords, MaxList)}}

\* the values given as the load_data section
LoadDataSections ==
    {None, New("LoadData", <<List(<<>>)>>),
     New("LoadData",
         <<List(<<LoadCurve(PyInt(1),
                            List(<<Tuple(<<PyInt(0), PyInt(0)>>),
                                   Tuple(<<PyInt(1), PyInt(1)>>)>>),
                            Str("linear"), None)>>)>>)}

\* Feb(module, control, globals, material, mesh, mesh_domains, boundary,
\* loads, load_data, output); the sections material, mesh_domains, loads and
\* output are not given
Febs ==
    {New("Feb",
         <<New("Module", <<Str("solid")>>), c,
           New("Globals", <<PyInt(0), PyInt(0), PyInt(0)>>), None, m, None,
           b, None, l, None, Str("3.0"), Str("febio_spec")>>) :
        c \in {New("Control", <<Str("STATIC"), PyInt(1), Str("0.1"),
                                None, None, None>>)},
        m \in Meshes,
        b \in {New("Boundary", <<List(<<>>)>>),
               New("Boundary",
                   <<List(<<New("FixedBoundary",
                                <<Str("f"), Str("ns"), FIX, Str("bc"),
                                  Tuple(<<Str("x")>>)>>)>>)>>)},
        l \in LoadDataSections}

Roots ==
    Solvers \cup TimeSteppers \cup Controls \cup LoadControllers \cup LoadDatas
    \cup Boundaries \cup Surfaces \cup FixedBoundaries \cup Febs
    \cup TaggedSurfaces \cup MeshRoots \cup PressureLoads \cup Materials

\* the members of ElementType
ElementTypes ==
    {<<"enum", "ElementType", m[1], m[2]>> :
        m \in {<<"HEX8", "hex8">>, <<"HEX20", "hex20">>, <<"HEX27", "hex27">>,
               <<"PENTA6", "penta6">>, <<"PENTA15", "penta15">>,
               <<"PYRA5", "pyra5">>, <<"TET4", "tet4">>, <<"TET10", "tet10">>,
               <<"TET15", "tet15">>}}

\* the widths of the connectivity arrays given to Elements
Widths == {4, 5, 6, 8, 10, 15, 20, 27}

\* the arrays given as coords
CoordsArrays ==
    {zeros(<<n, w>>) : n \in 0..MaxRows, w \in {2, 3}}
    \cup {zeros(<<MaxRows>>), zeros(<<MaxRows, 3, 2>>)}

\* the arrays given as ids or node_ids
IdsArrays == {zeros(<<n>>) : n \in 0..MaxRows} \cup {zeros(<<MaxRows, 3>>)}

\* the arrays given as elements
ElementsArrays ==
    {zeros(<<n, w>>) : n \in 1..MaxRows, w \in Widths}
    \cup {zeros(<<MaxRows>>), zeros(<<MaxRows, 4, 1>>)}

\* the arrays given as the nodes of a face
NodesArrays == {zeros(<<3>>), zeros(<<4>>), zeros(<<4, 2>>)}

\* the lists of (x, y) tuples and the arrays given as points
PointsValues ==
    {List([i \in 1..n |-> Tuple(<<PyInt(0), PyInt(i)>>)]) : n \in 0..MaxRows}
    \cup {zeros(<<n, w>>) : n \in 0..MaxRows, w \in {1, 2, 3}}
    \cup {zeros(<<MaxRows>>), zeros(<<2, 2, 2>>)}

\* the constructor calls of the records that hold arrays: the class and the
\* arguments
Calls ==
    {<<"Nodes", Str("n"), c, i>> : c \in CoordsArrays, i \in IdsArrays}
    \cup {<<"Elements", Str("e"), t, e, i>> :
            t \in ElementTypes, e \in ElementsArrays, i \in IdsArrays}
    \cup {<<"NodeSet", Str("s"), i, None>> : i \in {None} \cup IdsArrays}
    \cup {<<"Face", t, PyInt(1), n, None>> :
            t \in {TRI3, QUAD4}, n \in NodesArrays}
    \cup {<<"LoadCurve", PyInt(1), p, i, None>> :
            p \in PointsValues, i \in {None, Str("linear")}}

\* the call: the record constructed, or the exception raised
Construct(call) ==
    CASE call[1] = "Nodes" -> Nodes(call[2], call[3], call[4])
      [] call[1] = "Elements" -> Elements(call[2], call[3], call[4], call[5])
      [] call[1] = "NodeSet" -> NodeSet(call[2], call[3], call[4])
      [] call[1] = "Face" -> Face(call[2], call[3], call[4], call[5])
      [] call[1] = "LoadCurve" -> LoadCurve(call[2], call[3], call[4], call[5])

\* the property bags: the two supported kinds with every property, a bag
\* without "mat_type", one of an unsupported type, one without "id" and one
\* whose "E" is a str
PropertyBags ==
    LET neo(i) == << <<"mat_type", Str("neo-Hookean")>>,
                     <<"density", Float("1.0")>>, <<"E", Float("0.3")>>,
                     <<"v", Float("0.48")>>, <<"id", PyInt(i)>>,
                     <<"color", Str("black")>> >>
        cmr(i) == << <<"mat_type", Str("coupled Mooney-Rivlin")>>,
                     <<"density", Float("1.0")>>, <<"id", PyInt(i)>>,
                     <<"c1", Float("0.46")>>, <<"c2", Float("0.48")>>,
                     <<"k", Float("0.5")>> >>
    IN  UNION {{Dict(neo(i)), Dict(cmr(i)),
                Dict(DictPop(neo(i), "mat_type")),
                Dict(DictSet(neo(i), "mat_type", Str("foo"))),
                Dict(DictPop(neo(i), "id")),
                Dict(DictSet(neo(i), "E", Str("soft")))} : i \in 1..MaxMatId}

\* the names of the materials, in the order of the mapping
MaterialNames == <<"arterial", "calcium", "sleeve", "fibrotic">>

\* the mappings name -> property bag of up to MaxMats materials
MaterialsDicts ==
    {Dict([i \in 1..Len(q) |-> <<MaterialNames[i], q[i]>>]) :
        q \in SeqsUpTo(PropertyBags, MaxMats)}

\* the arrays given as element_materials
ElementMaterials ==
    {NdArray(<<>>), NdArray(<<PyInt(1), PyInt(1)>>),
     NdArray([i \in 1..MaxMatId |-> PyInt(i)])}

\* the record trees the threads serialize: Control records with and without
\* a Solver and a TimeStepper, LoadData records with lists of controllers
ThreadTrees ==
    LET solvers == {v \in Solvers :
                      /\ v[3][1] # None
                      /\ \A i \in 2..(Len(v[3]) - 1) : v[3][i] = None}
        steppers == {New("TimeStepper",
                         <<PyInt(1), PyInt(2), None, None, Str("time_stepper")>>)}
        controllers == {New("LoadController",
                            <<PyInt(1), LOAD_CURVE, Str("load_controller")>>),
                        New("LoadController",
                            <<None, MATH, Str("math_controller")>>)}
    IN  {New("Control", <<Str("STATIC"), PyInt(1), Str("0.1"), v, w, None>>) :
            v \in {None} \cup solvers, w \in {None} \cup steppers}
        \cup {New("LoadData", <<List(q)>>) : q \in SeqsUpTo(controllers, MaxList)}

\* the values a caller assigns to the field `name` of a record of class cls
FieldValues(cls, name) ==
    CASE cls = "Control" /\ name = "analysis" -> {None, Str("STATIC")}
      [] cls = "Control" /\ name = "solver" -> {None} \cup Solvers
      [] cls = "Control" /\ name = "time_stepper" -> {None} \cup TimeSteppers
      [] cls = "Control" /\ name = "output_level" -> {None, Str("OUTPUT_FINAL")}
      [] cls = "Solver" /\ name = "_key" -> {Str("solver"), Str("analysis")}
      [] cls = "Solver" /\ name = "qnmethod" -> {None, Str("BFGS")}
      [] cls = "TimeStepper" /\ name = "_key" ->
            {Str("time_stepper"), Str("solver")}
      [] cls = "LoadController" /\ name = "type" -> {None, LOAD_CURVE, MATH}
      [] cls = "LoadData" /\ name = "load_controllers" ->
            {None} \cup {List(q) : q \in SeqsUpTo(LoadControllers, MaxList)}
      [] cls = "Boundary" /\ name = "boundary_conditions" ->
            FixedBoundaries
            \cup {List(q) : q \in SeqsUpTo(FixedBoundaries, MaxList)}
      [] cls = "FixedBoundary" /\ name = "dofs" -> {Tuple(d) : d \in Dofs}
      [] cls = "Feb" /\ name = "_version" -> {Str("3.0"), Str("2.5")}
      [] cls = "Feb" /\ name = "load_data" -> LoadDataSections
      [] cls = "Feb" /\ name = "mesh" -> Meshes
      [] cls = "Nodes" /\ name = "coords" ->
            {a \in CoordsArrays : ndim(a) <= 2}
      [] cls = "Nodes" /\ name = "ids" -> IdsArrays
      [] cls = "Elements" /\ name = "elements" ->
            {a \in ElementsArrays : ndim(a) <= 2}
      [] cls = "Elements" /\ name = "ids" -> IdsArrays
      [] cls = "NodeSet" /\ name = "node_ids" -> {None} \cup IdsArrays
      [] cls = "Face" /\ name = "nodes" -> NodesArrays
      [] cls = "Face" /\ name = "type" -> {TRI3, QUAD4}
      [] cls = "LoadCurve" /\ name = "points" ->
            {a \in PointsValues : IsList(a) \/ ndim(a) <= 2}
      [] cls = "Surface" /\ name = "faces" ->
            {List(q) : q \in SeqsUpTo(Faces, MaxFaces)}
      [] OTHER -> {}

\* all strings over KeyChars of length 0..n
KeyChars == {"_", "i", "d"}

RECURSIVE Strings(_)
Strings(n) ==
    IF n = 0 THEN {""}
    ELSE LET S == Strings(n - 1) IN S \cup {t \o c : t \in S, c \in KeyChars}

-----------------------------------------------------------------------------
(* group_elements_by_material *)

RECURSIVE Ascending(_)
\* the integers of the set S in ascending order
Ascending(S) ==
    IF S = {} THEN <<>>
    ELSE LET least == CHOOSE x \in S : \A y \in S : x <= y
         IN  <<least>> \o Ascending(S \ {least})

\* np.unique(array) of a 1-D array of int: the values, sorted
unique_sorted(array) ==
    LET values == Ascending({array[2][i][2] : i \in 1..PyLen(array)})
    IN  NdArray([i \in 1..Len(values) |-> PyInt(values[i])])

\* np.arange(start, stop) + 1
arange_plus_1(start, stop) ==
    NdArray([i \in 1..(stop - start) |-> PyInt(start + i - 1 + 1)])

\* np.array(rows) + 1 for a list of 1-D rows of one width
rows_plus_1(rows, width) ==
    <<"ndarray",
      [i \in 1..Len(rows) |->
          NdArray([j \in 1..PyLen(rows[i]) |-> PyInt(rows[i][2][j][2] + 1)])],
      width>>

\* element_group: the positions of the elements whose material is mat_id
element_group(element_materials, mat_id) ==
    SelectSeq([i \in 1..PyLen(element_materials) |-> i],
              LAMBDA i : element_materials[2][i] = mat_id)

\* the material whose name the i-th group takes: materials[i], with i the
\* position of mat_id in unique_materials (from 0)
group_material(materials, i, mat_id) == materials[2][i + 1]

RECURSIVE group_loop(_, _, _, _, _, _)
\* `for i, mat_id in enumerate(unique_materials)`, from position i on
group_loop(tetmesh, materials, unique_materials, i, elements_list, elem_count) ==
    IF i >= PyLen(unique_materials) THEN List(elements_list)
    ELSE LET mat_id == unique_materials[2][i + 1]
             group == element_group(tetmesh[3], mat_id)
         IN  IF i + 1 > PyLen(materials) THEN Raise("IndexError")
             ELSE LET e == Elements(
                         Str("Elements_" \o
                             PyStr(getattr(group_material(materials, i, mat_id),
                                           "name"))),
                         TET4,
                         rows_plus_1([k \in 1..Len(group) |-> tetmesh[2][2][group[k]]],
                                     4),
                         arange_plus_1(elem_count, elem_count + Len(group)))
                  IN  IF IsRaise(e) THEN e
                      ELSE group_loop(tetmesh, materials, unique_materials, i + 1,
                                      Append(elements_list, e),
                                      elem_count + Len(group))

\* group_elements_by_material(tetmesh, materials), tetmesh being
\* <<"TetMesh", elements, element_materials>>. A failed assert evaluates its
\* message: the one of the second assert joins ints and raises TypeError.
group_elements_by_material(tetmesh, materials) ==
    LET unique_materials == unique_sorted(tetmesh[3])
        keys == {getattr(materials[2][j], "id") : j \in 1..PyLen(materials)}
        missing_materials ==
            {unique_materials[2][i] : i \in 1..PyLen(unique_materials)} \ keys
    IN  IF Cardinality(keys) # PyLen(materials) THEN Raise("AssertionError")
        ELSE IF missing_materials # {} THEN Raise("TypeError")
        ELSE group_loop(tetmesh, materials, unique_materials, 0, <<>>, 0)

-----------------------------------------------------------------------------
(* The caller's operations on one record tree *)

Init ==
    /\ root \in Roots
    /\ result = None
    /\ op = "init"
    /\ key = ""
    /\ xml = ""
    /\ args = None
    /\ threads = <<>>

\* result = root.to_dict()
ToDict ==
    /\ IsFebBase(root)
    /\ result' = to_dict(root)
    /\ op' = "to_dict"
    /\ UNCHANGED <<root, key, xml, args, threads>>

\* root.name = value, for a field of the record; the mapping of an earlier
\* to_dict has been handed on and is no longer held
SetAttr ==
    /\ IsFebBase(root)
    /\ \E i \in 1..Len(Fields(Class(root))) :
         \E value \in FieldValues(Class(root), Fields(Class(root))[i]) :
            /\ value # getattr(root, Fields(Class(root))[i])
            /\ root' = setattr(root, Fields(Class(root))[i], value)
    /\ result' = None
    /\ op' = "setattr"
    /\ UNCHANGED <<key, xml, args, threads>>

Next == ToDict \/ SetAttr

Spec == Init /\ [][Next]_vars

-----------------------------------------------------------------------------
(* The caller constructs a record that holds arrays, then uses it *)

InitConstruct ==
    /\ root = None
    /\ result = None
    /\ op = "init"
    /\ key = ""
    /\ xml = ""
    /\ args = None
    /\ threads = <<>>

\* root = Class(arguments): the record, or the exception of __post_init__
NewRecord ==
    /\ root = None
    /\ \E call \in Calls :
         LET r == Construct(call) IN
         /\ args' = call
         /\ root' = IF IsRaise(r) THEN None ELSE r
         /\ result' = IF IsRaise(r) THEN r ELSE None
    /\ op' = "construct"
    /\ UNCHANGED <<key, xml, threads>>

NextConstruct == NewRecord \/ ToDict \/ SetAttr

SpecConstruct == InitConstruct /\ [][NextConstruct]_vars

-----------------------------------------------------------------------------
(* Two threads, each calling to_dict on a record tree of its own *)

InitThreads ==
    /\ args \in {<<"to_dict", a, b>> : a \in ThreadTrees, b \in ThreadTrees}
    /\ threads = [t \in 1..2 |-> Running(<<Frame(args[t + 1])>>)]
    /\ root = None
    /\ result = None
    /\ op = "init"
    /\ key = ""
    /\ xml = ""

\* the thread t runs its next statement
Thread(t) ==
    /\ threads[t].stack # <<>>
    /\ threads' = [threads EXCEPT
                      ![t] = Step([u \in 1..2 |-> threads[u].stack], t)]
    /\ op' = "step"
    /\ UNCHANGED <<root, result, key, xml, args>>

NextThreads == \E t \in 1..2 : Thread(t)

SpecThreads == InitThreads /\ [][NextThreads]_vars

-----------------------------------------------------------------------------
(* The caller groups the elements of a tetrahedral mesh *)

\* the material of id i, named after it
NamedMaterial(i) ==
    NeoHookean(Str("m" \o ToString(i)), PyInt(i), Float("1.0"), Float("0.3"),
               Float("0.48"))

\* the lists of materials: sorted by id, as tetmesh_to_feb passes them, and
\* one list with an id twice
MaterialLists ==
    {LET ids == Ascending(S)
     IN  List([j \in 1..Len(ids) |-> NamedMaterial(ids[j])]) :
        S \in SUBSET (1..MaxMatId)}
    \cup {List(<<NamedMaterial(1), NamedMaterial(1)>>)}

\* the meshes: up to MaxElems elements, the element at position n (from 0)
\* joining the vertices n, n, n and n + 1, each with a material id
TetMeshes ==
    {<<"TetMesh",
       <<"ndarray",
         [n \in 1..Len(q) |->
             NdArray(<<PyInt(n - 1), PyInt(n - 1), PyInt(n - 1), PyInt(n)>>)],
         4>>,
       NdArray([n \in 1..Len(q) |-> PyInt(q[n])])>> :
        q \in SeqsUpTo(1..MaxMatId, MaxElems)}

InitTetMesh ==
    /\ args \in {<<"group_elements_by_material", t, m>> :
                   t \in TetMeshes, m \in MaterialLists}
    /\ root = None
    /\ result = None
    /\ op = "init"
    /\ key = ""
    /\ xml = ""
    /\ threads = <<>>

\* result = group_elements_by_material(tetmesh, materials)
GroupElements ==
    /\ op = "init"
    /\ result' = group_elements_by_material(args[2], args[3])
    /\ op' = "group_elements_by_material"
    /\ UNCHANGED <<root, key, xml, args, threads>>

NextTetMesh == GroupElements

SpecTetMesh == InitTetMesh /\ [][NextTetMesh]_vars

-----------------------------------------------------------------------------
(* The caller prunes a dictionary in place *)

\* the dictionaries given to prune_dict_inplace
Dictionaries ==
    LET keys == <<"a", "b", "c", "d", "e", "f">>
        values == {None, PyInt(0), List(<<>>)}
    IN  {Dict([i \in 1..Len(q) |-> <<keys[i], q[i]>>]) :
            q \in SeqsUpTo(values, MaxKeys)}

InitPrune ==
    /\ root \in Dictionaries
    /\ args = <<"prune_dict_inplace", root>>
    /\ result = None
    /\ op = "init"
    /\ key = ""
    /\ xml = ""
    /\ threads = <<>>

\* prune_dict_inplace(root), with args the argument as it was at the call
PruneInplace ==
    /\ op = "init"
    /\ LET r == prune_dict_inplace(root[2]) IN
       /\ root' = Dict(r[1])
       /\ result' = r[2]
    /\ op' = "prune_dict_inplace"
    /\ UNCHANGED <<key, xml, args, threads>>

NextPrune == PruneInplace

SpecPrune == InitPrune /\ [][NextPrune]_vars

-----------------------------------------------------------------------------
(* The caller converts a mapping of property bags *)

InitMaterials ==
    /\ args \in {<<"convert_to_materials", e, m>> :
                   e \in ElementMaterials, m \in MaterialsDicts}
    /\ root = args[3]
    /\ result = None
    /\ op = "init"
    /\ key = ""
    /\ xml = ""
    /\ threads = <<>>

\* result = convert_to_materials(element_materials, materials_dict), with
\* root the caller's materials_dict and args the arguments as they were at
\* the call
ConvertToMaterials ==
    /\ op = "init"
    /\ result' = convert_to_materials(args[2], root)
    /\ root' = materials_dict_after(root)
    /\ op' = "convert_to_materials"
    /\ UNCHANGED <<key, xml, args, threads>>

NextMaterials == ConvertToMaterials

SpecMaterials == InitMaterials /\ [][NextMaterials]_vars

-----------------------------------------------------------------------------
(* The key converter applied to one field name *)

InitKey ==
    /\ key \in Strings(MaxKeyLen)
    /\ xml = ""
    /\ op = "init"
    /\ root = None
    /\ result = None
    /\ args = None
    /\ threads = <<>>

\* xml = prop_to_xml(key)
PropToXml ==
    /\ xml' = prop_to_xml(key)
    /\ op' = "prop_to_xml"
    /\ UNCHANGED <<root, result, key, args, threads>>

\* xml = FebBase._convert_key(key), of a class without _at_names
ConvertKey ==
    /\ xml' = FebBase_convert_key("Solver", key)
    /\ op' = "_convert_key"
    /\ UNCHANGED <<root, result, key, args, threads>>

NextKey == PropToXml \/ ConvertKey

SpecKey == InitKey /\ [][NextKey]_vars

-----------------------------------------------------------------------------
(* Vocabulary of the properties *)

\* the classes that inherit FebBase.to_dict unchanged
Generic == {"Solver", "TimeStepper", "Control", "LoadController", "LoadData"}

\* root.to_dict() has just returned or raised, and root's class is generic
GenericDone == op = "to_dict" /\ Class(root) \in Generic

\* the positions, in fields(), of the fields other than "_key"
DataFields(self) ==
    {i \in 1..Len(Fields(Class(self))) : Fields(Class(self))[i] # "_key"}

FieldName(self, i) == Fields(Class(self))[i]

FieldValue(self, i) == self[3][i]

\* the fields that are set
SetFields(self) == {i \in DataFields(self) : FieldValue(self, i) # None}

\* the key a set field writes: key_for of the child's tag for a record,
\* key_for of the field's name otherwise
KeyOf(self, i) ==
    IF IsFebBase(FieldValue(self, i))
    THEN _convert_key(Class(self), _key(FieldValue(self, i)))
    ELSE _convert_key(Class(self), FieldName(self, i))

\* an empty str, list, tuple, array or dict
IsEmpty(v) == IsSized(v) /\ PyLen(v) = 0

\* C1: in the mapping returned by the generic to_dict, every key is the key
\* of a field that is set and no value is None, so a field that is None
\* produces no entry; when every field is None the call returns the empty
\* mapping.
C1_UnsetFieldsOmitted ==
    GenericDone =>
        /\ IsDict(result) =>
              \A p \in 1..Len(result[2]) :
                 /\ result[2][p][2] # None
                 /\ \E i \in SetFields(root) : KeyOf(root, i) = result[2][p][1]
        /\ SetFields(root) = {} => result = Dict(<<>>)

\* C1 witness: a Control with output_level unset and analysis set was
\* serialized, and only the set field has a key.
C1_Witness ==
    /\ GenericDone /\ Class(root) = "Control" /\ IsDict(result)
    /\ getattr(root, "output_level") = None
    /\ getattr(root, "analysis") # None
    /\ HasKey(result[2], "analysis")
    /\ ~HasKey(result[2], "output_level")

RECURSIVE NoEmptyValues(_)
\* no key of the mapping d, or of a mapping nested in it, maps to None, to an
\* empty mapping or to an empty sequence
NoEmptyValues(d) ==
    \A p \in 1..Len(d[2]) :
        LET v == d[2][p][2] IN
        /\ v # None
        /\ ~IsEmpty(v)
        /\ IsDict(v) => NoEmptyValues(v)
        /\ IsList(v) =>
              \A q \in 1..PyLen(v) : IsDict(v[2][q]) => NoEmptyValues(v[2][q])

\* C2: in the mapping returned by the generic to_dict no key, at the top
\* level or in a nested mapping of a child record, maps to None, to an empty
\* mapping or to an empty sequence; a field holding a child record whose
\* fields are all unset contributes no key.
C2_NoEmptyValues ==
    GenericDone /\ IsDict(result) =>
        /\ NoEmptyValues(result)
        /\ \A i \in SetFields(root) :
              (/\ IsFebBase(FieldValue(root, i))
               /\ SetFields(FieldValue(root, i)) = {}
               /\ \A j \in SetFields(root) \ {i} : KeyOf(root, j) # KeyOf(root, i))
              => ~HasKey(result[2], KeyOf(root, i))

\* C2 witness: a Control holding a Solver with no field set was serialized
\* to a non-empty mapping without the solver's key.
C2_Witness ==
    /\ GenericDone /\ Class(root) = "Control" /\ IsDict(result)
    /\ IsFebBase(getattr(root, "solver"))
    /\ SetFields(getattr(root, "solver")) = {}
    /\ _key(getattr(root, "solver")) = "solver"
    /\ result[2] # <<>>
    /\ ~HasKey(result[2], "solver")

\* the serializations of the items of a list of records
ItemDicts(list) == [q \in 1..PyLen(list) |-> to_dict(list[2][q])]

\* C3 as stated: a list field of one element appears as that element's
\* serialized value, a list field of two or more elements as the list of
\* the elements' serializations in order.
C3_Original ==
    GenericDone /\ IsDict(result) =>
        \A i \in SetFields(root) :
            LET v == FieldValue(root, i)
                k == KeyOf(root, i)
            IN  /\ (IsList(v) /\ PyLen(v) = 1) =>
                      HasKey(result[2], k) /\ Get(result[2], k) = ItemDicts(v)[1]
                /\ (IsList(v) /\ PyLen(v) >= 2) =>
                      HasKey(result[2], k) /\ Get(result[2], k) = List(ItemDicts(v))

\* C3 amended: a list field of one element appears as that element's
\* serialized value, not wrapped in a list, unless that value is the empty
\* mapping, and then the field has no key; a list field of two or more
\* elements appears as the list of the elements' serializations in order.
C3_SingletonCollapsed ==
    GenericDone /\ IsDict(result) =>
        \A i \in SetFields(root) :
            LET v == FieldValue(root, i)
                k == KeyOf(root, i)
            IN  /\ (IsList(v) /\ PyLen(v) = 1 /\ ~IsEmpty(ItemDicts(v)[1])) =>
                      HasKey(result[2], k) /\ Get(result[2], k) = ItemDicts(v)[1]
                /\ (IsList(v) /\ PyLen(v) = 1 /\ IsEmpty(ItemDicts(v)[1])) =>
                      ~HasKey(result[2], k)
                /\ (IsList(v) /\ PyLen(v) >= 2) =>
                      HasKey(result[2], k) /\ Get(result[2], k) = List(ItemDicts(v))

\* C3 witness: a LoadData holding two load controllers was serialized to a
\* list of two mappings.
C3_Witness ==
    /\ GenericDone /\ Class(root) = "LoadData" /\ IsDict(result)
    /\ IsList(getattr(root, "load_controllers"))
    /\ PyLen(getattr(root, "load_controllers")) = 2
    /\ HasKey(result[2], "load_controller")
    /\ IsList(Get(result[2], "load_controller"))
    /\ PyLen(Get(result[2], "load_controller")) = 2

\* C4: a Boundary holding one boundary condition bc, bare or as a list of
\* one, serializes without error to the mapping whose key "bc" holds bc's
\* own mapping.
C4_BareAndListAgree ==
    (op = "to_dict" /\ Class(root) = "Boundary") =>
        LET b == getattr(root, "boundary_conditions") IN
        /\ IsFebBase(b) => result = Dict(<< <<"bc", to_dict(b)>> >>)
        /\ (IsList(b) /\ PyLen(b) = 1) =>
              result = Dict(<< <<"bc", to_dict(b[2][1])>> >>)

\* the value a set field leaves under its key when no other field writes
\* that key: the field's own serialization, collapsed
Emitted(self, i) ==
    LET v == FieldValue(self, i) IN
    IF IsFebBase(v) THEN to_dict(v)
    ELSE IF IsList(v)
    THEN IF PyLen(v) = 1 THEN ItemDicts(v)[1] ELSE List(ItemDicts(v))
    ELSE IF IsFebEnum(v) THEN Str(v[4])
    ELSE v

\* the field's key is in the mapping d and holds the field's own value
Contributes(self, d, i) ==
    /\ i \in SetFields(self)
    /\ HasKey(d[2], KeyOf(self, i))
    /\ Get(d[2], KeyOf(self, i)) = Emitted(self, i)

\* C6: in the mapping returned by the generic to_dict, whenever field f is
\* declared before field g and both contribute a key, f's key precedes g's.
C6_DeclaredOrder ==
    GenericDone /\ IsDict(result) =>
        \A i, j \in DataFields(root) :
            (i < j /\ Contributes(root, result, i) /\ Contributes(root, result, j))
            => /\ KeyOf(root, i) # KeyOf(root, j)
               /\ IndexOf(result[2], KeyOf(root, i))
                    < IndexOf(result[2], KeyOf(root, j))

\* C7: in the mapping returned by the generic to_dict, a field that holds a
\* single record (one that does not serialize to the empty mapping, which is
\* pruned) is found under key_for(the child's tag), with the child's own
\* to_dict() as the value.
C7_ChildUnderOwnTag ==
    GenericDone /\ IsDict(result) =>
        \A i \in SetFields(root) :
            (IsFebBase(FieldValue(root, i)) /\ ~IsEmpty(to_dict(FieldValue(root, i))))
            => /\ HasKey(result[2], KeyOf(root, i))
               /\ Get(result[2], KeyOf(root, i)) = to_dict(FieldValue(root, i))

\* what C8 says of a field name: "__" becomes "#", else one "_" becomes
\* "@", and the rest of the name is kept
PrefixConverted(k) ==
    IF Len(k) >= 2 /\ SubSeq(k, 1, 2) = "__" THEN "#" \o SubSeq(k, 3, Len(k))
    ELSE IF Len(k) >= 1 /\ SubSeq(k, 1, 1) = "_" THEN "@" \o SubSeq(k, 2, Len(k))
    ELSE k

\* C8: prop_to_xml, and FebBase._convert_key for a class without _at_names,
\* map a name starting with "__" to "#" and the rest, a name starting with
\* one "_" to "@" and the rest, and any other name to itself.
C8_PrefixOnly ==
    op \in {"prop_to_xml", "_convert_key"} => xml = PrefixConverted(key)

\* C8 witness: a name with a double prefix and a later underscore was
\* converted.
C8_Witness ==
    op = "prop_to_xml" /\ key = "__i_" /\ xml = "#i_"

\* C9: in the mapping returned by the generic to_dict, a field holding a
\* FebEnum member is found under key_for(the field's name) with the member's
\* value, not its name and not the member itself.
C9_EnumWireValue ==
    GenericDone /\ IsDict(result) =>
        \A i \in SetFields(root) :
            LET v == FieldValue(root, i)
                k == _convert_key(Class(root), FieldName(root, i))
            IN  IsFebEnum(v) =>
                   /\ HasKey(result[2], k)
                   /\ Get(result[2], k) = Str(v[4])
                   /\ Get(result[2], k) # Str(v[3])
                   /\ Get(result[2], k) # v

\* C9 witness: a LoadController of type LOAD_CURVE was serialized with
\* "type" holding "loadcurve".
C9_Witness ==
    /\ GenericDone /\ Class(root) = "LoadController" /\ IsDict(result)
    /\ getattr(root, "type") = LOAD_CURVE
    /\ HasKey(result[2], "type")
    /\ Get(result[2], "type") = Str("loadcurve")

\* the wire value of the type of the q-th face
FaceTypeAt(faces, q) == getattr(faces[q], "type")[4]

\* the position of the first face of type t
FirstOf(faces, t) ==
    CHOOSE q \in 1..Len(faces) :
        FaceTypeAt(faces, q) = t /\ \A r \in 1..(q - 1) : FaceTypeAt(faces, r) # t

\* the {"@id", "#text"} entries of the faces of type t, in their order
EntriesOf(faces, t) ==
    LET same == SelectSeq(faces, LAMBDA f : getattr(f, "type")[4] = t)
    IN  [q \in 1..Len(same) |->
            Dict(<< <<"@id", getattr(same[q], "id")>>,
                    <<"#text", Str(Join(",", getattr(same[q], "nodes")[2]))>> >>)]

\* C10: Surface.to_dict returns "@name", then one key per face type present,
\* in order of first occurrence; a key holds the entries of the faces of its
\* type in their order, as a list when two or more and bare when one; every
\* face appears exactly once.
C10_FacesGroupedByType ==
    (op = "to_dict" /\ Class(root) = "Surface") =>
        LET faces == getattr(root, "faces")[2]
            types == {FaceTypeAt(faces, q) : q \in 1..Len(faces)}
            d == result[2]
            Count(v) == IF IsList(v) THEN PyLen(v) ELSE 1
        IN  /\ IsDict(result)
            /\ Len(d) = 1 + Cardinality(types)
            /\ d[1] = <<"@name", getattr(root, "name")>>
            /\ \A p \in 2..Len(d) :
                  /\ d[p][1] \in types
                  /\ \A r \in (p + 1)..Len(d) :
                        FirstOf(faces, d[p][1]) < FirstOf(faces, d[r][1])
                  /\ d[p][2] = IF Len(EntriesOf(faces, d[p][1])) = 1
                               THEN EntriesOf(faces, d[p][1])[1]
                               ELSE List(EntriesOf(faces, d[p][1]))
            /\ \A q \in 1..Len(faces) :
                  Cardinality({p \in 2..Len(d) : d[p][1] = FaceTypeAt(faces, q)}) = 1

\* C10 witness: a Surface with faces of types tri3, quad4, tri3 was
\* serialized to the keys "@name", "tri3", "quad4", with two entries under
\* "tri3" and a bare entry under "quad4".
C10_Witness ==
    /\ op = "to_dict" /\ Class(root) = "Surface" /\ IsDict(result)
    /\ Len(getattr(root, "faces")[2]) = 3
    /\ [q \in 1..3 |-> FaceTypeAt(getattr(root, "faces")[2], q)]
         = <<"tri3", "quad4", "tri3">>
    /\ Keys(result[2]) = <<"@name", "tri3", "quad4">>
    /\ IsList(Get(result[2], "tri3")) /\ PyLen(Get(result[2], "tri3")) = 2
    /\ IsDict(Get(result[2], "quad4"))

\* the serializations of the items of a list whose tag is converted to k
SameTag(self, list, k) ==
    LET same == SelectSeq(list[2],
                    LAMBDA e : _convert_key(Class(self), _key(e)) = k)
    IN  [q \in 1..Len(same) |-> to_dict(same[q])]

\* C11: in the mapping returned by the generic to_dict, a field holding a
\* list of records has one key per distinct tag of its elements,
\* key_for(the tag), holding the serializations of the elements of that tag
\* in order, as a list when two or more and bare when one (a lone element
\* that serializes to the empty mapping is pruned).
C11_ListFansOutByTag ==
    GenericDone /\ IsDict(result) =>
        \A i \in SetFields(root) :
            LET v == FieldValue(root, i) IN
            (IsList(v) /\ \A q \in 1..PyLen(v) : IsFebBase(v[2][q])) =>
                \A q \in 1..PyLen(v) :
                    LET k == _convert_key(Class(root), _key(v[2][q]))
                        same == SameTag(root, v, k)
                    IN  IF Len(same) = 1
                        THEN IsEmpty(same[1])
                             \/ (HasKey(result[2], k) /\ Get(result[2], k) = same[1])
                        ELSE HasKey(result[2], k)
                             /\ Get(result[2], k) = List(same)

\* C12: FixedBoundary.to_dict returns exactly the four entries "@name" = name,
\* "@type" = "fix", "@node_set" = node_set and "dofs" = the dofs in their
\* order with a "," between neighbours, and no other key.
C12_FixedBoundaryMapping ==
    (op = "to_dict" /\ Class(root) = "FixedBoundary") =>
        /\ IsDict(result)
        /\ Keys(result[2]) = <<"@name", "@type", "@node_set", "dofs">>
        /\ Get(result[2], "@name") = getattr(root, "name")
        /\ Get(result[2], "@type") = Str("fix")
        /\ Get(result[2], "@node_set") = getattr(root, "node_set")
        /\ LET dofs == getattr(root, "dofs")[2]
               n == Len(dofs)
               text == Get(result[2], "dofs")[2]
           IN  /\ Kind(Get(result[2], "dofs")) = "str"
               /\ Len(text) = IF n = 0 THEN 0 ELSE 2 * n - 1
               /\ \A i \in 1..n : SubSeq(text, 2 * i - 1, 2 * i - 1) = dofs[i][2]
               /\ \A i \in 1..(n - 1) : SubSeq(text, 2 * i, 2 * i) = ","

\* C12 witness: FixedBoundary("f", "ns", ("x", "y", "z")) was serialized with
\* "dofs" holding "x,y,z".
C12_Witness ==
    /\ op = "to_dict" /\ Class(root) = "FixedBoundary" /\ IsDict(result)
    /\ getattr(root, "name") = Str("f")
    /\ getattr(root, "dofs") = Tuple(<<Str("x"), Str("y"), Str("z")>>)
    /\ Get(result[2], "dofs") = Str("x,y,z")
    /\ Len(result[2]) = 4

\* the call raised ArrayShapeError
RaisedShapeError == IsRaise(result) /\ result[2] = "ArrayShapeError"

\* the node count written in the wire value of an element type
NodeCount(value) ==
    CASE value = "hex8" -> 8
      [] value = "hex20" -> 20
      [] value = "hex27" -> 27
      [] value = "penta6" -> 6
      [] value = "penta15" -> 15
      [] value = "pyra5" -> 5
      [] value = "tet4" -> 4
      [] value = "tet10" -> 10
      [] value = "tet15" -> 15

\* C13: Elements(name, type, elements, ids) returns a record exactly when
\* elements is 2-D with as many columns as the node count of the type and ids
\* is 1-D with one id per row; otherwise it raises ArrayShapeError, and when
\* elements is at fault the error names "elements" and its expected shape
\* gives the node count as the width.
C13_ElementsShape ==
    (op = "construct" /\ args[1] = "Elements") =>
        LET width == NodeCount(args[3][4])
            elementsOk == ndim(args[4]) = 2 /\ args[4][3] = width
            idsOk == ndim(args[5]) = 1 /\ Len(args[5][2]) = Len(args[4][2])
        IN  /\ IsFebBase(root) <=> (elementsOk /\ idsOk)
            /\ ~IsFebBase(root) => RaisedShapeError
            /\ ~elementsOk =>
                  /\ RaisedShapeError
                  /\ result[3] = "elements"
                  /\ result[5] = Str("(n, " \o ToString(width) \o ",)")
            /\ (elementsOk /\ ~idsOk) => (RaisedShapeError /\ result[3] = "ids")

\* C13 witness: Elements of type TET4 with a connectivity array of width 8
\* raised ArrayShapeError naming "elements" and expecting width 4.
C13_Witness ==
    /\ op = "construct" /\ args[1] = "Elements"
    /\ args[3] = TET4 /\ args[4] = zeros(<<MaxRows, 8>>)
    /\ RaisedShapeError
    /\ result[3] = "elements"
    /\ result[4] = Tuple(<<PyInt(MaxRows), PyInt(8)>>)
    /\ result[5] = Str("(n, 4,)")

\* C14: LoadCurve(id, points, ...) raises ArrayShapeError when points is a
\* list of fewer than 2 entries or an array that is not of shape (n, 2) with
\* n >= 2, and returns a record for every list of at least 2 pairs and every
\* array of shape (n, 2) with n >= 2.
C14_LoadCurvePoints ==
    (op = "construct" /\ args[1] = "LoadCurve") =>
        LET points == args[3]
            bad == \/ IsList(points) /\ Len(points[2]) < 2
                   \/ /\ Kind(points) = "ndarray"
                      /\ \/ ndim(points) # 2
                         \/ Len(points[2]) < 2
                         \/ points[3] # 2
        IN  /\ bad => (RaisedShapeError /\ root = None)
            /\ ~bad => (IsFebBase(root) /\ Class(root) = "LoadCurve"
                        /\ getattr(root, "points") = points /\ result = None)

\* C14 witness: a list of one point raised ArrayShapeError.
C14_Witness ==
    /\ op = "construct" /\ args[1] = "LoadCurve"
    /\ IsList(args[3]) /\ Len(args[3][2]) = 1
    /\ RaisedShapeError
    /\ result[3] = "points"

\* the argument a constructor call gives for the field `name`
ArgOf(call, name) ==
    IF call[1] = "LoadCurve"
    THEN call[CHOOSE i \in 2..5 :
                 <<"id", "points", "interpolate", "extra">>[i - 1] = name]
    ELSE call[1 + FieldIndex(call[1], name)]

\* the shape of an argument: the shape of an array, the length of a list
ActualShape(v) == IF IsList(v) THEN PyInt(Len(v[2])) ELSE shape(v)

\* C15: an ArrayShapeError raised by a constructor (Nodes, Elements, NodeSet,
\* Face, LoadCurve) has as array_name the name of a declared field of the
\* class, as array_shape the shape of the argument given for that field, and
\* as expected_shape a text describing the required shape.
C15_ShapeErrorFields ==
    (op = "construct" /\ RaisedShapeError) =>
        /\ HasField(args[1], result[3])
        /\ ArgOf(args, result[3]) # None
        /\ result[4] = ActualShape(ArgOf(args, result[3]))
        /\ Kind(result[5]) = "str" /\ Len(result[5][2]) > 0

\* the constructor would reject the fields the Elements record holds now
RejectedNow(self) ==
    IsRaise(Elements(getattr(self, "name"), getattr(self, "type"),
                     getattr(self, "elements"), getattr(self, "ids")))

\* C16: over every sequence of construct, change-a-field and to_dict, an
\* ArrayShapeError is the outcome of a construct step only: to_dict and a
\* field assignment never raise it, whatever the shapes of the arrays the
\* record holds by then.
C16_ShapeErrorOnlyFromConstruct ==
    RaisedShapeError => op = "construct"

\* C16 witness: an Elements record whose arrays were changed to shapes the
\* constructor rejects was serialized, and to_dict returned a mapping.
C16_Witness ==
    /\ op = "to_dict" /\ Class(root) = "Elements"
    /\ RejectedNow(root)
    /\ IsDict(result)

\* the positions of the section fields of a Feb record
Sections == {i \in 1..Len(Fields("Feb")) : Fields("Feb")[i] \notin {"_version", "_key"}}

C18_ToDictNeverRaises ==
    (op = "to_dict" /\ root = Construct(args)) => IsDict(result)

\* the bag names no supported type: it has no "mat_type" or one that is no
\* key of the catalog
UnknownType(bag) ==
    \/ ~HasKey(bag[2], "mat_type")
    \/ Get(bag[2], "mat_type")[2] \notin {"neo-Hookean", "coupled Mooney-Rivlin"}

\* the bag names a supported type and has every property of it, of the
\* right kind
Convertible(bag) ==
    /\ ~UnknownType(bag)
    /\ LET needed == IF Get(bag[2], "mat_type")[2] = "neo-Hookean"
                     THEN {"density", "E", "v"} ELSE {"density", "c1", "c2", "k"}
       IN  /\ HasKey(bag[2], "id") /\ Kind(Get(bag[2], "id")) = "int"
           /\ \A k \in needed :
                 HasKey(bag[2], k) /\ Kind(Get(bag[2], k)) = "float"

\* the call raised UnknownMaterialError
RaisedUnknownMaterial == IsRaise(result) /\ result[2] = "UnknownMaterialError"

\* C19 as stated: convert_to_materials raises UnknownMaterialError whenever
\* some bag of the mapping names no supported type, and does not raise it
\* when every bag names a supported type.
C19_Original ==
    op = "convert_to_materials" =>
        LET bags == args[3][2] IN
        /\ (\E i \in 1..Len(bags) : UnknownType(bags[i][2]))
              => RaisedUnknownMaterial
        /\ (\A i \in 1..Len(bags) : ~UnknownType(bags[i][2]))
              => ~RaisedUnknownMaterial

\* C19 amended: convert_to_materials raises UnknownMaterialError whenever
\* some bag names no supported type and every bag before it in the mapping
\* converts; when an earlier bag of a supported type does not convert, the
\* error of that bag is raised; it raises no UnknownMaterialError when every
\* bag names a supported type.
C19_UnknownMaterial ==
    op = "convert_to_materials" =>
        LET bags == args[3][2] IN
        /\ \A i \in 1..Len(bags) :
              (/\ UnknownType(bags[i][2])
               /\ \A j \in 1..(i - 1) : Convertible(bags[j][2]))
              => RaisedUnknownMaterial
        /\ \A i \in 1..Len(bags) :
              (/\ ~UnknownType(bags[i][2]) /\ ~Convertible(bags[i][2])
               /\ \A j \in 1..(i - 1) : Convertible(bags[j][2]))
              => (IsRaise(result)
                  /\ result[2] \in {"MissingValueError", "WrongTypeError"})
        /\ (\A i \in 1..Len(bags) : ~UnknownType(bags[i][2]))
              => ~RaisedUnknownMaterial

\* C19 witness: a mapping whose first bag converts and whose second bag has
\* no "mat_type" raised UnknownMaterialError.
C19_Witness ==
    /\ op = "convert_to_materials"
    /\ Len(args[3][2]) = 2
    /\ Convertible(args[3][2][1][2])
    /\ ~HasKey(args[3][2][2][2][2], "mat_type")
    /\ RaisedUnknownMaterial

\* the thread's outermost call has returned or raised
Done(t) == threads[t].stack = <<>>

\* the root of the tree a frame of the thread t reads
TreeOf(t) == threads[t].stack[1].self

\* C20: two to_dict calls that run concurrently on two record trees, under
\* any interleaving of their statements, each return the mapping that
\* to_dict returns for that tree when it runs alone, and the tree each
\* thread reads stays the tree it was called on.
C20_ThreadsIndependent ==
    threads # <<>> =>
        \A t \in 1..2 :
            /\ Done(t) => threads[t].result = to_dict(args[t + 1])
            /\ ~Done(t) => TreeOf(t) = args[t + 1]

\* C20 witness: both calls have returned, the trees differ and each has a
\* child record, so the statements of the two calls were interleaved in
\* some order and both wrote entries.
C20_Witness ==
    /\ threads # <<>>
    /\ Done(1) /\ Done(2)
    /\ args[2] # args[3]
    /\ Class(args[2]) = "Control" /\ getattr(args[2], "solver") # None
    /\ Class(args[3]) = "LoadData"
    /\ PyLen(getattr(args[3], "load_controllers")) = 2
    /\ IsDict(threads[1].result) /\ threads[1].result[2] # <<>>
    /\ IsDict(threads[2].result) /\ threads[2].result[2] # <<>>

\* C21: a Face constructed without an explicit tag has the tag equal to the
\* wire value of the type it was constructed with, and keeps it over every
\* later to_dict call and every later assignment to its fields `type` and
\* `nodes`.
C21_FaceTagFixed ==
    (IsFebBase(root) /\ Class(root) = "Face" /\ args[5] = None)
        => getattr(root, "_key") = get_value(args[2])

\* C21 witness: the type of a Face constructed without a tag has been
\* changed, and the tag is still the wire value of the first type.
C21_Witness ==
    /\ IsFebBase(root) /\ Class(root) = "Face" /\ args[5] = None
    /\ op = "setattr"
    /\ getattr(root, "type") # args[2]
    /\ getattr(root, "_key") = get_value(args[2])

\* the entries found under the key k of a surface's mapping
EntriesUnder(d, k) ==
    IF ~HasKey(d[2], k) THEN {}
    ELSE LET v == Get(d[2], k)
         IN  IF IsList(v) THEN {v[2][i] : i \in 1..Len(v[2])} ELSE {v}

\* C22: in the mapping Surface.to_dict returns, the entry of every face is
\* found under the key equal to that face's own tag.
C22_FaceUnderOwnTag ==
    (op = "to_dict" /\ Class(root) = "Surface" /\ IsDict(result)) =>
        LET faces == getattr(root, "faces")[2] IN
        \A i \in 1..Len(faces) :
            FaceEntry(faces[i]) \in EntriesUnder(result, _key(faces[i]))

\* C23: in the mapping Mesh.to_dict returns, the key of a list field whose
\* list is empty is absent, so Mesh() serializes to the empty mapping.
C23_EmptyListsAbsent ==
    (op = "to_dict" /\ Class(root) = "Mesh" /\ IsDict(result)) =>
        LET names == <<"nodes", "elements", "node_sets", "surfaces">>
            keys == <<"Nodes", "Elements", "NodeSet", "Surface">>
        IN  \A i \in 1..4 :
                getattr(root, names[i]) = List(<<>>)
                    => ~HasKey(result[2], keys[i])

\* C24: PressureLoad.to_dict emits 'pressure' as the pair {'@lc':
\* load_curve, '#text': str(pressure)} exactly when load_curve is not None,
\* 0 included, and as the bare pressure otherwise; each of the three flags is
\* emitted as 1 for True and 0 for False when set and has no key when unset.
C24_PressureLoad ==
    (op = "to_dict" /\ Class(root) = "PressureLoad") =>
        /\ IsDict(result)
        /\ HasKey(result[2], "pressure")
        /\ LET p == Get(result[2], "pressure")
               c == getattr(root, "load_curve")
           IN  IF c # None
               THEN /\ IsDict(p)
                    /\ Keys(p[2]) = <<"@lc", "#text">>
                    /\ Get(p[2], "@lc") = c
                    /\ Get(p[2], "#text") = Str(getattr(root, "pressure")[2])
               ELSE p = getattr(root, "pressure")
        /\ \A flag \in {"symmetric_stiffness", "linear", "shell_bottom"} :
              LET b == getattr(root, flag) IN
              /\ b = None => ~HasKey(result[2], flag)
              /\ b = Bool(TRUE) =>
                    HasKey(result[2], flag) /\ Get(result[2], flag) = PyInt(1)
              /\ b = Bool(FALSE) =>
                    HasKey(result[2], flag) /\ Get(result[2], flag) = PyInt(0)

\* C24 witness: a PressureLoad with load_curve 0, linear False and
\* shell_bottom unset has been serialized with the pair and 'linear': 0.
C24_Witness ==
    /\ op = "to_dict" /\ Class(root) = "PressureLoad"
    /\ getattr(root, "load_curve") = PyInt(0)
    /\ getattr(root, "linear") = Bool(FALSE)
    /\ getattr(root, "shell_bottom") = None
    /\ IsDict(result)
    /\ IsDict(Get(result[2], "pressure"))
    /\ Get(result[2], "linear") = PyInt(0)

\* the materials of a Material record, as a sequence
MaterialsOf(self) ==
    IF IsList(getattr(self, "materials")) THEN getattr(self, "materials")[2]
    ELSE <<getattr(self, "materials")>>

\* the mapping describes the material m: id, name and type under '@id',
\* '@name', '@type' (the type's wire value), every other field under its name
DescribesMaterial(d, m) ==
    /\ IsDict(d)
    /\ Len(d[2]) = Len(Fields(Class(m)))
    /\ \A i \in 1..Len(Fields(Class(m))) :
          LET name == Fields(Class(m))[i]
              k == IF name \in {"id", "name", "type"} THEN "@" \o name ELSE name
          IN  /\ HasKey(d[2], k)
              /\ Get(d[2], k) = IF name = "type" THEN Str(m[3][i][4]) ELSE m[3][i]

\* C25: Material.to_dict returns a mapping with the one key 'material'; for
\* two or more materials (or none) it holds one mapping per material in
\* input order, for one material, bare or in a list, that material's mapping
\* itself; each mapping has id, name and type under '@id', '@name', '@type'
\* and every other field under its plain name.
C25_MaterialMapping ==
    (op = "to_dict" /\ Class(root) = "Material") =>
        LET ms == MaterialsOf(root) IN
        /\ IsDict(result)
        /\ Keys(result[2]) = <<"material">>
        /\ LET v == Get(result[2], "material") IN
           IF Len(ms) = 1 THEN DescribesMaterial(v, ms[1])
           ELSE /\ IsList(v)
                /\ PyLen(v) = Len(ms)
                /\ \A i \in 1..Len(ms) : DescribesMaterial(v[2][i], ms[i])

\* C25 witness: a Material holding one bare material has been serialized,
\* and 'material' holds a mapping with the key '@type'.
C25_Witness ==
    /\ op = "to_dict" /\ Class(root) = "Material"
    /\ ~IsList(getattr(root, "materials"))
    /\ IsDict(result)
    /\ IsDict(Get(result[2], "material"))
    /\ HasKey(Get(result[2], "material")[2], "@type")

\* the positions of the bags whose id occurs in element_materials
UsedBags ==
    {i \in 1..Len(args[3][2]) :
        Get(args[3][2][i][2][2], "id") \in unique(args[2])}

\* the record is the material of the bag at position i: its name is the
\* bag's key, its class the one that 'mat_type' selects, its id the bag's
MaterialOfBag(m, i) ==
    LET name == args[3][2][i][1]
        bag == args[3][2][i][2][2]
    IN  /\ getattr(m, "name") = Str(name)
        /\ getattr(m, "id") = Get(bag, "id")
        /\ getattr(m, "type")[4] = Get(bag, "mat_type")[2]
        /\ Class(m) = IF Get(bag, "mat_type")[2] = "neo-Hookean"
                      THEN "NeoHookean" ELSE "CoupledMooneyRivlin"
        /\ getattr(m, "density") = Get(bag, "density")

\* C26: when every bag is valid, convert_to_materials returns one material
\* per bag whose id occurs in element_materials and none for the other bags,
\* in the order of the mapping, each with the bag's key as name and the
\* class that 'mat_type' selects; the caller's mapping is as it was.
C26_OneMaterialPerUsedBag ==
    (/\ op = "convert_to_materials"
     /\ \A i \in 1..Len(args[3][2]) : Convertible(args[3][2][i][2])) =>
        /\ IsList(result)
        /\ PyLen(result) = Cardinality(UsedBags)
        /\ \A i \in UsedBags :
              MaterialOfBag(result[2][Cardinality({j \in UsedBags : j <= i})], i)
        /\ root = args[3]

\* C26 witness: of two valid bags only the second one's id occurs in
\* element_materials, and the call returned that bag's material alone.
C26_Witness ==
    /\ op = "convert_to_materials"
    /\ Len(args[3][2]) = 2
    /\ \A i \in 1..2 : Convertible(args[3][2][i][2])
    /\ UsedBags = {2}
    /\ IsList(result) /\ PyLen(result) = 1
    /\ getattr(result[2][1], "name") = Str(MaterialNames[2])
    /\ root = args[3]

\* the raw field-to-value mapping of the generic to_dict: _dict as the loop
\* over the fields leaves it
RawMapping(self) == FebBase_fields(self, Fields(Class(self)), <<>>)

\* the spec's step "prune": without the keys whose value is unset or a
\* sequence or mapping of length 0
StepPrune(pairs) == SelectSeq(pairs, LAMBDA p : p[2] # None /\ ~IsEmpty(p[2]))

\* the spec's step "collapse": a value that is a list of exactly one element
\* is replaced by that element
StepCollapse(pairs) ==
    [i \in 1..Len(pairs) |->
        IF IsList(pairs[i][2]) /\ Len(pairs[i][2][2]) = 1
        THEN <<pairs[i][1], pairs[i][2][2][1]>> ELSE pairs[i]]

\* a value of the raw mapping is a list of one element that is empty
HasEmptySingleton(pairs) ==
    \E i \in 1..Len(pairs) :
        /\ IsList(pairs[i][2]) /\ Len(pairs[i][2][2]) = 1
        /\ IsEmpty(pairs[i][2][2][1])

\* C27 as stated: the result of the generic to_dict is the raw mapping
\* pruned first and collapsed second.
C27_Original ==
    (GenericDone /\ IsDict(result)) =>
        result = Dict(StepCollapse(StepPrune(RawMapping(root)[2])))

\* C27 amended: the result of the generic to_dict is the raw mapping
\* collapsed first and pruned second; it is also the raw mapping pruned first
\* and collapsed second unless a list field's single element serializes to
\* an empty mapping, and then the field has no key in the result.
C27_CollapseThenPrune ==
    (GenericDone /\ IsDict(result)) =>
        LET raw == RawMapping(root)[2] IN
        /\ result = Dict(StepPrune(StepCollapse(raw)))
        /\ ~HasEmptySingleton(raw) => result = Dict(StepCollapse(StepPrune(raw)))
        /\ \A i \in 1..Len(raw) :
              (IsList(raw[i][2]) /\ Len(raw[i][2][2]) = 1
               /\ IsEmpty(raw[i][2][2][1])) => ~HasKey(result[2], raw[i][1])

\* C27 witness: a LoadData whose list holds one load controller with no
\* field set has been serialized to the empty mapping.
C27_Witness ==
    /\ GenericDone /\ Class(root) = "LoadData" /\ IsDict(result)
    /\ IsList(getattr(root, "load_controllers"))
    /\ PyLen(getattr(root, "load_controllers")) = 1
    /\ HasEmptySingleton(RawMapping(root)[2])
    /\ result = Dict(<<>>)

\* C28: prune_dict_inplace(d) raises nothing and leaves in d the entries of
\* the original d whose value is not None, in their order.
C28_PruneInplace ==
    op = "prune_dict_inplace" =>
        /\ ~IsRaise(result)
        /\ root = Dict(SelectSeq(args[2][2], LAMBDA p : p[2] # None))

\* the material ids of the elements of the mesh of the call
UsedIds == {args[2][3][2][i][2] : i \in 1..Len(args[2][3][2])}

\* the ids of the materials of the call, in the order of the list
MaterialIds == [j \in 1..Len(args[3][2]) |-> getattr(args[3][2][j], "id")[2]]

\* the positions (from 1) of the elements whose material id is m
ElementsOf(m) == {i \in 1..Len(args[2][3][2]) : args[2][3][2][i][2] = m}

\* C29: for materials sorted by id, with distinct ids that cover the ids the
\* elements use, group_elements_by_material returns one Elements group per
\* used material id, in ascending id; the group of id m is named
\* 'Elements_' + the name of the material whose id is m and holds the
\* elements of material m, and the element ids run from 1 to N across the
\* groups.
C29_GroupsNamedById ==
    (/\ op = "group_elements_by_material"
     /\ \A j \in 1..(Len(MaterialIds) - 1) : MaterialIds[j] < MaterialIds[j + 1]
     /\ \A m \in UsedIds : \E j \in 1..Len(MaterialIds) : MaterialIds[j] = m) =>
        /\ IsList(result)
        /\ PyLen(result) = Cardinality(UsedIds)
        /\ \A m \in UsedIds :
              LET g == result[2][Cardinality({u \in UsedIds : u <= m})]
                  before == Cardinality(UNION {ElementsOf(u) :
                                                 u \in {v \in UsedIds : v < m}})
                  j == CHOOSE k \in 1..Len(MaterialIds) : MaterialIds[k] = m
              IN  /\ getattr(g, "name")
                        = Str("Elements_" \o getattr(args[3][2][j], "name")[2])
                  /\ PyLen(getattr(g, "elements")) = Cardinality(ElementsOf(m))
                  /\ getattr(g, "ids")
                        = NdArray([i \in 1..Cardinality(ElementsOf(m)) |->
                                      PyInt(before + i)])

\* the set fields whose emitted value is not empty
NonEmptyFields(self) == {i \in SetFields(self) : ~IsEmpty(Emitted(self, i))}

\* C30: in the mapping returned by the generic to_dict no two fields write
\* the same key: the number of keys equals the number of declared fields,
\* other than "_key", whose value is set and not empty.
C30_NoKeyWrittenTwice ==
    GenericDone =>
        /\ IsDict(result)
        /\ Len(result[2]) = Cardinality(NonEmptyFields(root))

====
